---- MODULE Spec2Model ----
(***************************************************************************)
(* A model of the image analysis of next-image-check: the server action    *)
(* analyzeUrl (src/unnamed/part_004, second file, lines 538-943) and the   *)
(* pure helpers it calls (src/lib/utils/image.ts, src/unnamed/part_002,    *)
(* src/unnamed/part_001).                                                  *)
(*                                                                         *)
(* JavaScript strings are sequences of one-character strings, so that      *)
(* startsWith, includes, split and toLowerCase are computed, not assumed.  *)
(* An optional value (undefined / null / absent) is the empty sequence     *)
(* <<>> and a present value v is <<v>>.                                    *)
(***************************************************************************)
EXTENDS Integers, Sequences, FiniteSets, TLC

\* ------------------------------------------------------------------ bounds
\* Most <img> elements on the analysed page.
MaxImages == 2
\* Most intercepted image responses during one rendered collection.
MaxResponses == 2

\* ---------------------------------------------------------- optional values
None == <<>>
Some(x) == <<x>>

Max2(a, b) == IF a >= b THEN a ELSE b
Min2(a, b) == IF a <= b THEN a ELSE b

\* ------------------------------------------------------------------ strings
StartsWith(s, p) == Len(s) >= Len(p) /\ SubSeq(s, 1, Len(p)) = p
EndsWith(s, p) == Len(s) >= Len(p) /\ SubSeq(s, Len(s) - Len(p) + 1, Len(s)) = p
Includes(s, sub) ==
    \E i \in 1..(Len(s) - Len(sub) + 1) : SubSeq(s, i, i + Len(sub) - 1) = sub

UpperChars == <<"A", "B", "C", "D", "E", "F", "G", "H", "I", "J", "K", "L", "M",
                "N", "O", "P", "Q", "R", "S", "T", "U", "V", "W", "X", "Y", "Z">>
LowerChars == <<"a", "b", "c", "d", "e", "f", "g", "h", "i", "j", "k", "l", "m",
                "n", "o", "p", "q", "r", "s", "t", "u", "v", "w", "x", "y", "z">>
ToLowerChar(c) ==
    IF \E i \in 1..Len(UpperChars) : UpperChars[i] = c
    THEN LowerChars[CHOOSE i \in 1..Len(UpperChars) : UpperChars[i] = c]
    ELSE c
ToLowerCase(s) == [i \in 1..Len(s) |-> ToLowerChar(s[i])]

WhiteSpace == {" ", "\t", "\n"}
DigitChars == <<"0", "1", "2", "3", "4", "5", "6", "7", "8", "9">>
IsDigit(c) == \E i \in 1..Len(DigitChars) : DigitChars[i] = c
DigitVal(c) == (CHOOSE i \in 1..Len(DigitChars) : DigitChars[i] = c) - 1

\* String.prototype.split on every character of seps (empty pieces kept).
RECURSIVE SplitBy(_, _)
SplitBy(s, seps) ==
    IF \A i \in 1..Len(s) : s[i] \notin seps
    THEN <<s>>
    ELSE LET i == CHOOSE k \in 1..Len(s) :
                      s[k] \in seps /\ \A j \in 1..(k - 1) : s[j] \notin seps
         IN <<SubSeq(s, 1, i - 1)>> \o SplitBy(SubSeq(s, i + 1, Len(s)), seps)

RECURSIVE TrimStart(_)
TrimStart(s) ==
    IF s /= <<>> /\ s[1] \in WhiteSpace THEN TrimStart(Tail(s)) ELSE s
RECURSIVE TrimEnd(_)
TrimEnd(s) ==
    IF s /= <<>> /\ s[Len(s)] \in WhiteSpace
    THEN TrimEnd(SubSeq(s, 1, Len(s) - 1)) ELSE s
Trim(s) == TrimEnd(TrimStart(s))

\* split(/\s+/): runs of white space separate; on a trimmed string the only
\* empty piece is the whole of an empty string.
SplitWhiteSpace(s) ==
    IF s = <<>> THEN << <<>> >>
    ELSE SelectSeq(SplitBy(s, WhiteSpace), LAMBDA p : p /= <<>>)

\* The leading decimal digits of s, as a number.
RECURSIVE DigitsValue(_, _)
DigitsValue(s, acc) ==
    IF s /= <<>> /\ IsDigit(s[1])
    THEN DigitsValue(Tail(s), acc * 10 + DigitVal(s[1]))
    ELSE acc

\* Number.parseInt(s, 10): None is NaN, Some(n) the integer read from the
\* longest prefix [ws][+-]digits.
ParseInt(s) ==
    LET t == TrimStart(s)
        neg == t /= <<>> /\ t[1] = "-"
        u == IF t /= <<>> /\ t[1] \in {"-", "+"} THEN Tail(t) ELSE t
    IN IF u = <<>> \/ ~IsDigit(u[1]) THEN None
       ELSE Some(IF neg THEN 0 - DigitsValue(u, 0) ELSE DigitsValue(u, 0))

\* Number.parseFloat(s), kept to its integer part: the one use of a density
\* (max >= 2 in analyzeSrcSet) is decided by the integer part. A leading "."
\* reads as 0 when a digit follows it.
ParseFloat(s) ==
    LET t == TrimStart(s)
        neg == t /= <<>> /\ t[1] = "-"
        u == IF t /= <<>> /\ t[1] \in {"-", "+"} THEN Tail(t) ELSE t
    IN IF u /= <<>> /\ IsDigit(u[1])
       THEN Some(IF neg THEN 0 - DigitsValue(u, 0) ELSE DigitsValue(u, 0))
       ELSE IF Len(u) >= 2 /\ u[1] = "." /\ IsDigit(u[2]) THEN Some(0)
       ELSE None

\* --------------------------------------------------------- string constants
S_webp == <<"w", "e", "b", "p">>
S_avif == <<"a", "v", "i", "f">>
S_png == <<"p", "n", "g">>
S_jpeg == <<"j", "p", "e", "g">>
S_jpg == <<"j", "p", "g">>
S_gif == <<"g", "i", "f">>
S_svg == <<"s", "v", "g">>
S_unknown == <<"u", "n", "k", "n", "o", "w", "n">>
S_imageSlash == <<"i", "m", "a", "g", "e", "/">>
S_http == <<"h", "t", "t", "p">>
S_data == <<"d", "a", "t", "a", ":">>
S_base64 == <<";", "b", "a", "s", "e", "6", "4", ",">>

\* ------------------------------------------------ src/lib/utils/image.ts
\* contentType.split("/")[1]
ContentSubtype(contentType) == SplitBy(contentType, {"/"})[2]

\* url.split(".").pop()
LastDotPart(url) == LET parts == SplitBy(url, {"."}) IN parts[Len(parts)]

ExtensionAllowList == {S_jpg, S_jpeg, S_png, S_gif, S_webp, S_avif, S_svg}

\* contentType is a string, "" when null or undefined.
getImageFormatFromUrl(url, contentType) ==
    IF contentType /= <<>> /\ StartsWith(contentType, S_imageSlash)
    THEN ContentSubtype(contentType)
    ELSE LET extension == ToLowerCase(LastDotPart(url))
         IN IF extension /= <<>> /\ extension \in ExtensionAllowList
            THEN (IF extension = S_jpg THEN S_jpeg ELSE extension)
            ELSE S_unknown

\* A pair without a descriptor kept as an entry.
ParseSrcSetItemKeepingBare(src) ==
    LET tokens == SplitWhiteSpace(Trim(src))
        url == tokens[1]
        descriptor == IF Len(tokens) >= 2 THEN tokens[2] ELSE <<>>
        number == SubSeq(descriptor, 1, Len(descriptor) - 1)
    IN IF url = <<>> THEN None
       ELSE IF EndsWith(descriptor, <<"w">>)
            THEN Some([url |-> url, width |-> Some(ParseInt(number)), density |-> None])
       ELSE IF EndsWith(descriptor, <<"x">>)
            THEN Some([url |-> url, width |-> None, density |-> Some(ParseFloat(number))])
       ELSE Some([url |-> url, width |-> None, density |-> None])

\* One "url descriptor" pair of a srcset; None when the pair is dropped.
\* width and density are optional numbers: None absent, Some(None) NaN,
\* Some(Some(n)) the number n.
ParseSrcSetItem(src) ==
    LET tokens == SplitWhiteSpace(Trim(src))
        url == tokens[1]
        descriptor == IF Len(tokens) >= 2 THEN tokens[2] ELSE <<>>
        number == SubSeq(descriptor, 1, Len(descriptor) - 1)
    IN IF url = <<>> \/ descriptor = <<>> THEN None
       ELSE IF EndsWith(descriptor, <<"w">>)
            THEN Some([url |-> url, width |-> Some(ParseInt(number)), density |-> None])
       ELSE IF EndsWith(descriptor, <<"x">>)
            THEN Some([url |-> url, width |-> None, density |-> Some(ParseFloat(number))])
       ELSE Some([url |-> url, width |-> None, density |-> None])

RECURSIVE Flatten(_)
Flatten(ss) == IF ss = <<>> THEN <<>> ELSE Head(ss) \o Flatten(Tail(ss))

parseSrcSet(srcset) ==
    IF srcset = <<>> THEN <<>>
    ELSE LET parts == SplitBy(srcset, {","})
         IN Flatten([i \in 1..Len(parts) |-> ParseSrcSetItem(parts[i])])

\* Math.min / Math.max over a non-empty sequence of numbers (None is NaN,
\* and one NaN makes the result NaN).
SeqMin(ns) ==
    IF \E i \in 1..Len(ns) : ns[i] = None THEN None
    ELSE Some(CHOOSE m \in {ns[i][1] : i \in 1..Len(ns)} :
                  \A i \in 1..Len(ns) : m <= ns[i][1])
SeqMax(ns) ==
    IF \E i \in 1..Len(ns) : ns[i] = None THEN None
    ELSE Some(CHOOSE m \in {ns[i][1] : i \in 1..Len(ns)} :
                  \A i \in 1..Len(ns) : m >= ns[i][1])

\* max / min >= 2 in floating point: x/0 is Infinity, -Infinity or NaN.
RatioAtLeastTwo(max, min) ==
    IF min > 0 THEN max >= 2 * min
    ELSE IF min = 0 THEN max > 0
    ELSE max <= 2 * min

EmptySrcSetAnalysis(count) ==
    [transformationCount |-> count, hasAppropriateRange |-> FALSE,
     hasMobileSize |-> FALSE, hasDesktopSize |-> FALSE, sizeRange |-> None]

analyzeSrcSet(srcsetItems) ==
    LET transformationCount == Len(srcsetItems)
        withWidth == SelectSeq(srcsetItems, LAMBDA it : it.width /= None)
        widths == [i \in 1..Len(withWidth) |-> withWidth[i].width[1]]
        withDensity == SelectSeq(srcsetItems, LAMBDA it : it.density /= None)
        densities == [i \in 1..Len(withDensity) |-> withDensity[i].density[1]]
    IN IF srcsetItems = <<>> THEN EmptySrcSetAnalysis(0)
       ELSE IF widths /= <<>>
       THEN LET min == SeqMin(widths)
                max == SeqMax(widths)
                num == min /= None
            IN [transformationCount |-> transformationCount,
                hasAppropriateRange |-> num /\ RatioAtLeastTwo(max[1], min[1]),
                hasMobileSize |-> num /\ min[1] <= 640,
                hasDesktopSize |-> num /\ max[1] >= 1024,
                sizeRange |-> Some([min |-> min, max |-> max])]
       ELSE IF densities /= <<>>
       THEN LET max == SeqMax(densities)
            IN [transformationCount |-> transformationCount,
                hasAppropriateRange |-> max /= None /\ max[1] >= 2,
                hasMobileSize |-> TRUE,
                hasDesktopSize |-> TRUE,
                sizeRange |-> None]
       ELSE EmptySrcSetAnalysis(transformationCount)

\* image.ts lines 145-149.
AfterCachePenalty(score, cacheInfo) ==
    IF cacheInfo /= None /\ ~cacheInfo[1].cacheHit THEN score - 15 ELSE score

\* Lines 151-166.
AfterFormatPenalty(score, format) ==
    IF format = S_webp \/ format = S_avif THEN score
    ELSE IF format = S_png THEN score - 15
    ELSE IF format = S_jpeg \/ format = S_jpg THEN score - 10
    ELSE IF format = S_gif THEN score - 30
    ELSE score - 5

\* Lines 168-181.
AfterSizePenalty(score, size) ==
    IF size > 1000000 THEN score - 20
    ELSE IF size > 500000 THEN score - 10
    ELSE IF size > 200000 THEN score - 5
    ELSE IF size > 100000 THEN score - 0
    ELSE score

\* Lines 183-198.
AfterDimensionPenalty(score, dimensions) ==
    IF dimensions = None THEN score
    ELSE LET totalPixels == dimensions[1].width * dimensions[1].height
         IN IF totalPixels > 2000000 THEN score - 15
            ELSE IF totalPixels > 1000000 THEN score - 10
            ELSE IF totalPixels > 500000 THEN score - 5
            ELSE score

\* Lines 200-207.
AfterSrcSetPenalty(score, srcsetAnalysis) ==
    IF srcsetAnalysis = None \/ srcsetAnalysis[1].transformationCount = 0 THEN score - 15
    ELSE IF srcsetAnalysis[1].transformationCount < 2 THEN score - 5
    ELSE score

\* Lines 209-213.
AfterNextImagePenalty(score, isUsingNextImage) ==
    IF ~isUsingNextImage THEN score - 15 ELSE score

\* Lines 143-213: the score before the clamp of line 216.
calculateOptimizationScoreUnclamped(format, size, dimensions, isUsingNextImage, srcsetAnalysis, cacheInfo) ==
    AfterNextImagePenalty(
        AfterSrcSetPenalty(
            AfterDimensionPenalty(
                AfterSizePenalty(
                    AfterFormatPenalty(AfterCachePenalty(100, cacheInfo), format),
                    size),
                dimensions),
            srcsetAnalysis),
        isUsingNextImage)

\* The clamp without its floor: Math.min(100, score).
calculateOptimizationScoreNoFloor(format, size, dimensions, isUsingNextImage, srcsetAnalysis, cacheInfo) ==
    Min2(100,
        calculateOptimizationScoreUnclamped(format, size, dimensions,
                                            isUsingNextImage, srcsetAnalysis, cacheInfo))

\* A size threshold read as >= instead of >.
calculateOptimizationScoreSizeInclusive(format, size, dimensions, isUsingNextImage, srcsetAnalysis, cacheInfo) ==
    Max2(0, Min2(100,
        calculateOptimizationScoreUnclamped(format, size + 1, dimensions,
                                            isUsingNextImage, srcsetAnalysis, cacheInfo)))

calculateOptimizationScore(format, size, dimensions, isUsingNextImage, srcsetAnalysis, cacheInfo) ==
    Max2(0, Min2(100,
        calculateOptimizationScoreUnclamped(format, size, dimensions,
                                            isUsingNextImage, srcsetAnalysis, cacheInfo)))

\* Messages of generateRecommendations and of the LCP marking; the numbers a
\* message interpolates (size in KB, width x height, ttl) are left out.
R_cacheMiss == "Image is not being served from cache - set appropriate cache headers to improve performance"
R_lowTtl == "Consider increasing cache TTL to reduce origin requests"
R_replaceImg == "Replace standard <img> tag with Next.js Image component for automatic optimization"
R_considerNext == "Consider using Next.js for your project to leverage its Image component for optimization"
R_convertWebp == "Convert to WebP format to reduce size by ~30%"
R_nextShouldConvert == "Next.js Image should be converting this to WebP/AVIF - check your configuration"
R_compress == "Compress the image - current size is too large"
R_furtherCompress == "Consider further compression - current size could be reduced"
R_resize == "Resize image dimensions - current size is excessive for web use"
R_veryLarge == "Image dimensions are very large - ensure proper sizing with Next.js Image"
R_responsiveMultiple == "Consider using responsive images with multiple sizes for this large image"
R_responsiveNext == "Use responsive sizing with Next.js Image for this large image"
R_moreVariants == "Add more size variants to your srcset for better responsive coverage"
R_addMobile == "Add smaller image sizes to your srcset for mobile devices"
R_addDesktop == "Add larger image sizes to your srcset for desktop displays"
R_wellOptimized == "Image appears to be well optimized"
R_lcp == "This is an LCP element - use the Next.js Image component with priority attribute"

\* Responsive advice given also to an image without any variant.
SrcSetRecommendationsForNone(srcsetAnalysis) ==
    IF srcsetAnalysis = None \/ srcsetAnalysis[1].transformationCount <= 1
    THEN <<R_moreVariants>>
    ELSE (IF ~srcsetAnalysis[1].hasMobileSize THEN <<R_addMobile>> ELSE <<>>)
         \o (IF ~srcsetAnalysis[1].hasDesktopSize THEN <<R_addDesktop>> ELSE <<>>)

\* Lines 288-302: the srcset recommendations.
SrcSetRecommendations(srcsetAnalysis) ==
    IF srcsetAnalysis = None \/ srcsetAnalysis[1].transformationCount = 0
    THEN <<>>
    ELSE IF srcsetAnalysis[1].transformationCount <= 1 THEN <<R_moreVariants>>
    ELSE (IF ~srcsetAnalysis[1].hasMobileSize THEN <<R_addMobile>> ELSE <<>>)
         \o (IF ~srcsetAnalysis[1].hasDesktopSize THEN <<R_addDesktop>> ELSE <<>>)

\* cacheInfo is None or Some([cacheHit, cacheProvider, ttl, cacheControl]).
generateRecommendations(format, size, dimensions, isUsingNextImage, isLikelyNextJsSite, srcsetAnalysis, cacheInfo) ==
    LET modern == format = S_webp \/ format = S_avif
        cache == IF cacheInfo /= None /\ ~cacheInfo[1].cacheHit THEN <<R_cacheMiss>>
                 ELSE IF cacheInfo /= None /\ cacheInfo[1].ttl /= None
                         /\ cacheInfo[1].ttl[1] < 86400
                 THEN <<R_lowTtl>>
                 ELSE <<>>
        next == IF ~isUsingNextImage
                THEN (IF isLikelyNextJsSite THEN <<R_replaceImg>> ELSE <<R_considerNext>>)
                ELSE <<>>
        fmt == IF ~isUsingNextImage /\ ~modern THEN <<R_convertWebp>>
               ELSE IF isUsingNextImage /\ ~modern THEN <<R_nextShouldConvert>>
               ELSE <<>>
        sz == IF size > 1000000 THEN <<R_compress>>
              ELSE IF size > 500000 THEN <<R_furtherCompress>>
              ELSE <<>>
        dim == IF dimensions = None THEN <<>>
               ELSE LET width == dimensions[1].width
                        height == dimensions[1].height
                    IN IF width > 2000 \/ height > 2000
                       THEN (IF ~isUsingNextImage THEN <<R_resize>> ELSE <<R_veryLarge>>)
                       ELSE IF width > 1200 \/ height > 1200
                       THEN (IF ~isUsingNextImage THEN <<R_responsiveMultiple>>
                             ELSE <<R_responsiveNext>>)
                       ELSE <<>>
        ss == SrcSetRecommendations(srcsetAnalysis)
        recommendations == cache \o next \o fmt \o sz \o dim \o ss
    IN IF Len(recommendations) = 0 THEN <<R_wellOptimized>> ELSE recommendations

\* isNextImageComponent on an element of node-html-parser: el.attrs maps an
\* attribute name to its value, el.parent is None or Some([tagName, attrs]).
HasAttribute(attrs, name) == name \in DOMAIN attrs
GetAttribute(attrs, name) == IF name \in DOMAIN attrs THEN attrs[name] ELSE <<>>

S_boxSizing == <<"b", "o", "x", "-", "s", "i", "z", "i", "n", "g", ":", "b", "o", "r", "d", "e", "r", "-", "b", "o", "x">>
S_inlineBlock == <<"d", "i", "s", "p", "l", "a", "y", ":", "i", "n", "l", "i", "n", "e", "-", "b", "l", "o", "c", "k">>
S_nextImageClass == <<"n", "e", "x", "t", "-", "i", "m", "a", "g", "e">>
S_nextImagePath == <<"/", "_", "n", "e", "x", "t", "/", "i", "m", "a", "g", "e">>

isNextImageComponent(imgElement) ==
    \/ HasAttribute(imgElement.attrs, "data-nimg")
    \/ /\ imgElement.parent /= None
       /\ imgElement.parent[1].tagName = "SPAN"
       /\ HasAttribute(imgElement.parent[1].attrs, "style")
       /\ Includes(GetAttribute(imgElement.parent[1].attrs, "style"), S_boxSizing)
       /\ Includes(GetAttribute(imgElement.parent[1].attrs, "style"), S_inlineBlock)
    \/ Includes(GetAttribute(imgElement.attrs, "class"), S_nextImageClass)
    \/ Includes(GetAttribute(imgElement.attrs, "srcset"), S_nextImagePath)

\* ------------------------------------ src/unnamed/part_002 (lib/utils/network)
S_HIT == <<"H", "I", "T">>
S_hit == <<"h", "i", "t">>
S_TCP == <<"T", "C", "P">>
S_cloudfront == <<"c", "l", "o", "u", "d", "f", "r", "o", "n", "t">>
S_cacheDash == <<"c", "a", "c", "h", "e", "-">>
S_maxAge == <<"m", "a", "x", "-", "a", "g", "e", "=">>
S_public == <<"p", "u", "b", "l", "i", "c">>
S_private == <<"p", "r", "i", "v", "a", "t", "e">>

IsLetter(c) == \E i \in 1..Len(LowerChars) : LowerChars[i] = ToLowerChar(c)
AllLetters(s) == \A i \in 1..Len(s) : IsLetter(s[i])
AllDigits(s) == \A i \in 1..Len(s) : IsDigit(s[i])

\* /cache-[a-z]{3}-[a-z]+\d+-[a-z]{3}/i.test(s)
fastlyPattern(s) ==
    \E i \in 1..Len(s) : \E k \in 1..Len(s) : \E d \in 1..Len(s) :
        /\ i + 13 + k + d <= Len(s)
        /\ ToLowerCase(SubSeq(s, i, i + 5)) = S_cacheDash
        /\ AllLetters(SubSeq(s, i + 6, i + 8))
        /\ s[i + 9] = "-"
        /\ AllLetters(SubSeq(s, i + 10, i + 9 + k))
        /\ AllDigits(SubSeq(s, i + 10 + k, i + 9 + k + d))
        /\ s[i + 10 + k + d] = "-"
        /\ AllLetters(SubSeq(s, i + 11 + k + d, i + 13 + k + d))

\* cacheControl.match(/max-age=(\d+)/): the digits of the first match, parsed.
MaxAgeOf(cacheControl) ==
    LET hits == {i \in 1..Len(cacheControl) :
                    /\ i + 8 <= Len(cacheControl)
                    /\ SubSeq(cacheControl, i, i + 7) = S_maxAge
                    /\ IsDigit(cacheControl[i + 8])}
    IN IF hits = {} THEN None
       ELSE LET i == CHOOSE h \in hits : \A g \in hits : h <= g
            IN Some(DigitsValue(SubSeq(cacheControl, i + 8, Len(cacheControl)), 0))

\* new Date(s).getTime(): a date header is written as its time in decimal
\* digits; any other text is an invalid date (None, NaN).
ParseDate(s) == IF s /= <<>> /\ AllDigits(s) THEN Some(DigitsValue(s, 0)) ELSE None

\* Headers.get(name): "" stands for null. Names are kept in lower case, as
\* Headers does.
HeaderGet(headers, name) == IF name \in DOMAIN headers THEN headers[name] ELSE <<>>

\* part_002 lines 123-128: the Vercel marker.
VercelRule(result, headers) ==
    LET vercelCache == HeaderGet(headers, "x-vercel-cache")
    IN IF vercelCache /= <<>>
       THEN [result EXCEPT !.cacheHit = (vercelCache = S_HIT),
                           !.cacheProvider = Some("Vercel")]
       ELSE result

\* Lines 130-135: the Cloudflare marker.
CloudflareRule(result, headers) ==
    LET cfCache == HeaderGet(headers, "cf-cache-status")
    IN IF cfCache /= <<>>
       THEN [result EXCEPT !.cacheHit = (ToLowerCase(cfCache) = S_hit),
                           !.cacheProvider = Some("Cloudflare")]
       ELSE result

\* Lines 137-142: x-cache naming cloudfront.
CloudfrontRule(result, headers) ==
    LET awsCache == HeaderGet(headers, "x-cache")
    IN IF awsCache /= <<>> /\ Includes(awsCache, S_cloudfront)
       THEN [result EXCEPT !.cacheHit = Includes(ToLowerCase(awsCache), S_hit),
                           !.cacheProvider = Some("Cloudfront")]
       ELSE result

\* Lines 144-154: x-cache with an x-served-by of Fastly's shape.
FastlyRule(result, headers) ==
    LET fastlyCache == HeaderGet(headers, "x-cache")
        fastlyXServedBy == HeaderGet(headers, "x-served-by")
    IN IF /\ fastlyCache /= <<>>
          /\ fastlyXServedBy /= <<>>
          /\ result.cacheProvider = None
          /\ fastlyPattern(Trim(SplitBy(fastlyXServedBy, {","})[1]))
       THEN [result EXCEPT !.cacheHit = Includes(fastlyCache, S_HIT),
                           !.cacheProvider = Some("Fastly")]
       ELSE result

\* Lines 156-161: x-cache with TCP in it.
AkamaiRule(result, headers) ==
    LET akamaiCache == HeaderGet(headers, "x-cache")
    IN IF akamaiCache /= <<>> /\ result.cacheProvider = None /\ Includes(akamaiCache, S_TCP)
       THEN [result EXCEPT !.cacheHit = Includes(akamaiCache, S_HIT),
                           !.cacheProvider = Some("Akamai")]
       ELSE result

\* Lines 162-166: the Adobe AEM cache key.
AdobeRule(result, headers) ==
    IF result.cacheProvider = None /\ HeaderGet(headers, "x-adobe-cachekey") /= <<>>
    THEN [result EXCEPT !.cacheProvider = Some("Adobe AEM")]
    ELSE result

\* Lines 173-182: inside the cache-control branch, an Expires later than now
\* makes a hit when no hit was found yet.
ExpiresRule(result, headers, now) ==
    LET expire == HeaderGet(headers, "expires")
        expireDate == ParseDate(expire)
    IN IF HeaderGet(headers, "cache-control") /= <<>> /\ expire /= <<>> /\ ~result.cacheHit
       THEN [result EXCEPT !.cacheHit = (expireDate /= None /\ expireDate[1] > now)]
       ELSE result

\* Lines 169-171 and 183-192: cache-control kept, max-age read, and the
\* Generic provider.
CacheControlRule(result, headers) ==
    LET cacheControl == HeaderGet(headers, "cache-control")
    IN IF cacheControl = <<>> THEN result
       ELSE [result EXCEPT
                !.cacheControl = Some(cacheControl),
                !.ttl = MaxAgeOf(cacheControl),
                !.cacheProvider =
                    IF @ = None /\ (Includes(cacheControl, S_public)
                                    \/ Includes(cacheControl, S_private))
                    THEN Some("Generic") ELSE @]

NoCacheStatus ==
    [cacheHit |-> FALSE, cacheProvider |-> None, ttl |-> None, cacheControl |-> None]

\* parseCacheStatus(headers), with the clock reading of new Date() as now.
parseCacheStatus(headers, now) ==
    CacheControlRule(
        ExpiresRule(
            AdobeRule(
                AkamaiRule(
                    FastlyRule(
                        CloudfrontRule(
                            CloudflareRule(
                                VercelRule(NoCacheStatus, headers),
                                headers),
                            headers),
                        headers),
                    headers),
                headers),
            headers, now),
        headers)

\* -------------------------------------------------------------- new URL(s)
SchemeChars == {"+", "-", "."}
SpecialSchemes == {<<"h", "t", "t", "p">>, <<"h", "t", "t", "p", "s">>,
                   <<"f", "t", "p">>, <<"w", "s">>, <<"w", "s", "s">>}

\* The first index of a character of cs in s, or Len(s) + 1.
IndexOfAny(s, cs) ==
    IF \E i \in 1..Len(s) : s[i] \in cs
    THEN CHOOSE i \in 1..Len(s) : s[i] \in cs /\ \A j \in 1..(i - 1) : s[j] \notin cs
    ELSE Len(s) + 1

RECURSIVE StripSlashes(_)
StripSlashes(s) ==
    IF s /= <<>> /\ s[1] \in {"/", "\\"} THEN StripSlashes(Tail(s)) ELSE s

\* new URL(s) without a base: None when it throws TypeError, else the
\* protocol and host of the parsed URL (port, path, query are not kept).
ParseURL(s) ==
    LET t == Trim(s)
        c == IndexOfAny(t, {":"})
        scheme == ToLowerCase(SubSeq(t, 1, c - 1))
        rest == SubSeq(t, c + 1, Len(t))
        special == scheme \in SpecialSchemes
        auth == IF special THEN StripSlashes(rest)
                ELSE IF StartsWith(rest, <<"/", "/">>) THEN SubSeq(rest, 3, Len(rest))
                ELSE <<>>
        host == ToLowerCase(SubSeq(auth, 1, IndexOfAny(auth, {"/", "?", "#", "\\"}) - 1))
    IN IF c > Len(t) \/ scheme = <<>> \/ ~IsLetter(scheme[1])
          \/ (\E i \in 1..Len(scheme) :
                 ~(IsLetter(scheme[i]) \/ IsDigit(scheme[i]) \/ scheme[i] \in SchemeChars))
          \/ (special /\ host = <<>>)
       THEN None
       ELSE Some([protocol |-> scheme \o <<":">>, host |-> host])

\* An absolute URL: it parses on its own and names a host.
IsAbsoluteUrl(s) == ParseURL(s) /= None /\ ParseURL(s)[1].host /= <<>>

\* ------------------------------------------------------------ environment
\* The inputs of one run: the url argument, whether puppeteer and chromium
\* were imported, and what the page and the network answer.
U_page == <<"h", "t", "t", "p", ":", "/", "/", "h">>
U_notAUrl == <<"n", "o", "t", " ", "a", " ", "u", "r", "l">>

U_a == <<"h", "t", "t", "p", ":", "/", "/", "h", "/", "a", ".", "p", "n", "g">>
U_b == <<"h", "t", "t", "p", ":", "/", "/", "h", "/", "b", ".", "g", "i", "f">>
U_httpb == <<"h", "t", "t", "p", ":", "/", "/", "h", "/", "h", "t", "t", "p", "b", ".", "p", "n", "g">>
U_c == <<"h", "t", "t", "p", ":", "/", "/", "c", "/", "a", ".", "w", "e", "b", "p">>
A_rootRelative == <<"/", "a", ".", "p", "n", "g">>
A_pathRelative == <<"b", ".", "g", "i", "f">>
A_httpPrefixed == <<"h", "t", "t", "p", "b", ".", "p", "n", "g">>
A_schemeRelative == <<"/", "/", "c", "/", "a", ".", "w", "e", "b", "p">>
A_dataUri == <<"d", "a", "t", "a", ":", "x">>
A_base64 == <<"x", ";", "b", "a", "s", "e", "6", "4", ",", "y">>
U_base64 == <<"h", "t", "t", "p", ":", "/", "/", "h", "/", "x", ";", "b", "a", "s", "e", "6", "4", ",", "y">>
A_srcsetWidths == <<"x", " ", "3", "2", "0", "w", ",", " ", "y", " ", "1", "2", "8", "0", "w">>
A_srcsetDensity == <<"x", " ", "2", "x">>
A_800 == <<"8", "0", "0">>
A_600 == <<"6", "0", "0">>

\* The url argument: the page, and two strings new URL rejects.
Urls == {U_page, U_notAUrl, A_rootRelative}

\* An <img> of the page: attrs and parent are what node-html-parser reads
\* from the markup, dom what the browser reports for the same element in
\* page.evaluate (part_004 lines 624-662).
ImgElement(attrs, parent, src, width, height, isVisible, isInViewport, isNextImage, srcset) ==
    [attrs |-> attrs, parent |-> parent,
     dom |-> [src |-> src, width |-> width, height |-> height,
              isVisible |-> isVisible, isInViewport |-> isInViewport,
              isNextImage |-> isNextImage, srcset |-> srcset]]

E_rootRelative ==
    ImgElement("src" :> A_rootRelative, None, U_a, 800, 600, TRUE, TRUE, FALSE, <<>>)
E_absoluteHidden ==
    ImgElement(("src" :> U_a) @@ ("width" :> A_800) @@ ("height" :> A_600),
               None, U_a, 0, 0, FALSE, TRUE, FALSE, <<>>)
E_pathRelative ==
    ImgElement(("src" :> A_pathRelative) @@ ("srcset" :> A_srcsetDensity),
               None, U_b, 3000, 2000, TRUE, FALSE, FALSE, A_srcsetDensity)
E_httpPrefixed ==
    ImgElement("src" :> A_httpPrefixed, None, U_httpb, 800, 600, TRUE, TRUE, FALSE, <<>>)
E_schemeRelative ==
    ImgElement(("src" :> A_schemeRelative) @@ ("srcset" :> A_srcsetWidths)
                   @@ ("data-nimg" :> <<"1">>),
               None, U_c, 800, 600, TRUE, TRUE, TRUE, A_srcsetWidths)
E_dataUri ==
    ImgElement("src" :> A_dataUri, None, A_dataUri, 10, 10, TRUE, TRUE, FALSE, <<>>)
E_noSrc ==
    ImgElement("alt" :> <<"x">>, None, <<>>, 0, 0, TRUE, TRUE, FALSE, <<>>)
E_base64 ==
    ImgElement("src" :> A_base64, None, U_base64, 10, 10, TRUE, TRUE, FALSE, <<>>)

Elements == {E_rootRelative, E_absoluteHidden, E_pathRelative, E_httpPrefixed,
             E_schemeRelative, E_dataUri, E_noSrc, E_base64}

RECURSIVE SeqsUpTo(_, _)
SeqsUpTo(S, n) ==
    IF n = 0 THEN {<<>>}
    ELSE LET shorter == SeqsUpTo(S, n - 1)
         IN shorter \cup {Append(q, e) : q \in shorter, e \in S}

Pages == SeqsUpTo(Elements, MaxImages)

\* Header sets of image responses (lower-case names, as response.headers()
\* and Headers give them).
V_imagePng == <<"i", "m", "a", "g", "e", "/", "p", "n", "g">>
V_imageGif == <<"i", "m", "a", "g", "e", "/", "g", "i", "f">>
V_100 == <<"1", "0", "0">>
V_200 == <<"2", "0", "0">>
V_MISS == <<"M", "I", "S", "S">>
V_publicMaxAge == <<"p", "u", "b", "l", "i", "c", ",", " ", "m", "a", "x", "-", "a", "g", "e", "=", "6", "0">>

H_vercelHit == ("content-type" :> V_imagePng) @@ ("content-length" :> V_100)
                   @@ ("x-vercel-cache" :> S_HIT)
H_vercelMissNoLength == ("content-type" :> V_imageGif) @@ ("x-vercel-cache" :> V_MISS)
H_generic == ("content-length" :> V_200) @@ ("cache-control" :> V_publicMaxAge)
                 @@ ("expires" :> <<"3">>)
H_bare == ("content-type" :> V_imagePng)

InterceptedHeaders == {H_vercelHit, H_vercelMissNoLength, H_generic}
FetchedHeaders == {H_vercelMissNoLength, H_bare}
BodySizes == {0, 100}
\* Readings of the clock at new Date().
Times == {2, 4}
\* What sharp(...).metadata() resolves to.
Metadata(format, width, height) == [format |-> format, width |-> width, height |-> height]
DecodedMetadata == {Metadata(S_png, Some(3000), Some(2000))}

\* ------------------------------------------------------------------- state
VARIABLES
    env,               \* the run's inputs: url, usePuppeteer, page, siteIsNext
    pc,                \* where analyzeUrl stands
    baseUrl,           \* protocol//host of the parsed url
    browser,           \* "null", "open" or "closed"
    closeCalls,        \* number of calls of browser.close()
    imageNetworkData,  \* the Map of collectImageNetworkData: url -> entry
    responses,         \* number of intercepted responses handled so far
    isLikelyNextJsSite,
    imgElements,       \* the elements the per-image tasks run over
    tasks,             \* one async task per element of imgElements
    largestImage,      \* the LCP tracker shared by the tasks
    pending,           \* what the try block completed with, kept over finally
    outcome,           \* what analyzeUrl returned or threw
    net,               \* network operations started, by kind
    fnIn,              \* arguments of a direct call of a pure helper
    fnOut,             \* its result
    other              \* a second call of analyzeUrl waiting at an await, or None

runVars == <<pc, baseUrl, browser, closeCalls, imageNetworkData, responses,
             isLikelyNextJsSite, imgElements, tasks, largestImage, pending, outcome, net>>
vars == <<env, pc, baseUrl, browser, closeCalls, imageNetworkData, responses,
          isLikelyNextJsSite, imgElements, tasks, largestImage, pending, outcome, net,
          fnIn, fnOut, other>>

\* ------------------------------------- part_004 lines 668-682 and 700-701
\* The shim built from page.evaluate's imageData.
RenderedElement(e) ==
    [attrs |-> e.attrs, parent |-> None,
     isNextImage_ |-> Some(e.dom.isNextImage),
     dimensions_ |-> Some([width |-> e.dom.width, height |-> e.dom.height]),
     src_ |-> e.dom.src,
     isVisible_ |-> Some(e.dom.isVisible),
     isInViewport_ |-> Some(e.dom.isInViewport),
     srcset_ |-> e.dom.srcset]

\* An element of node-html-parser: none of the underscore fields exists.
ParsedElement(e) ==
    [attrs |-> e.attrs, parent |-> e.parent,
     isNextImage_ |-> None, dimensions_ |-> None, src_ |-> <<>>,
     isVisible_ |-> None, isInViewport_ |-> None, srcset_ |-> <<>>]

\* ------------------------------------------- part_004 lines 708-863: a task
NewTask ==
    [pc |-> "new", exit |-> "", src |-> <<>>, isUsingNextImage |-> FALSE,
     srcset |-> <<>>, srcsetAnalysis |-> EmptySrcSetAnalysis(0), cacheInfo |-> None,
     entryContentType |-> <<>>, size |-> 0, contentType |-> <<>>, buffer |-> FALSE,
     response |-> None, format |-> <<>>, decodeError |-> FALSE, result |-> None]

\* A settled task keeps only the value its promise resolved to, the return
\* statement it left by: "skip" (714), "notOk" (766), "caught" (861),
\* "record" (843), and whether the catch of line 802 ran (decodeError).
Settled(exit, result) == [NewTask EXCEPT !.pc = "done", !.exit = exit, !.result = result]

\* A skip of the empty source alone.
IsSkippedSrcEmptyOnly(src) == src = <<>>

\* Lines 712-715.
IsSkippedSrc(src) ==
    src = <<>> \/ StartsWith(src, S_data) \/ Includes(src, S_base64)

\* Lines 717-722.
NormalizeSrc(src, base) ==
    IF StartsWith(src, <<"/">>) THEN base \o src
    ELSE IF ~StartsWith(src, S_http) THEN base \o <<"/">> \o src
    ELSE src

\* The size of the network entry left unused.
SizeOrZeroIgnored(size) == 0

\* entry.size || 0, where size is Number.parseInt of content-length.
SizeOrZero(size) == IF size = None THEN 0 ELSE size[1]

\* Lines 710-754: a task from its start to its first await (the direct
\* fetch), or to line 779 when the network entry gave a size.
TaskPrefix(img, data, base, now) ==
    LET raw == IF img.src_ /= <<>> THEN img.src_ ELSE GetAttribute(img.attrs, "src")
        src == NormalizeSrc(raw, base)
        isUsingNextImage == IF img.isNextImage_ /= None THEN img.isNextImage_[1]
                            ELSE isNextImageComponent(img)
        srcset == IF img.srcset_ /= <<>> THEN img.srcset_
                  ELSE GetAttribute(img.attrs, "srcset")
        srcsetAnalysis == analyzeSrcSet(parseSrcSet(srcset))
        found == src \in DOMAIN data
        networkSize == IF found THEN SizeOrZero(data[src].size) ELSE 0
    IN IF IsSkippedSrc(raw) THEN Settled("skip", None)
       ELSE [NewTask EXCEPT
                !.pc = IF networkSize = 0 THEN "awaitFetch" ELSE "sized",
                !.src = src,
                !.isUsingNextImage = isUsingNextImage,
                !.srcset = srcset,
                !.srcsetAnalysis = srcsetAnalysis,
                !.cacheInfo = IF found THEN Some(parseCacheStatus(data[src].headers, now))
                              ELSE None,
                !.entryContentType = IF found THEN data[src].contentType ELSE <<>>,
                !.size = networkSize]

\* Lines 808-858: the record of a task whose format and dimensions are known.
TaskRecord(t, img, format, dims, likelyNext) ==
    LET width == ParseInt(IF GetAttribute(img.attrs, "width") /= <<>>
                          THEN GetAttribute(img.attrs, "width") ELSE <<"0">>)
        height == ParseInt(IF GetAttribute(img.attrs, "height") /= <<>>
                           THEN GetAttribute(img.attrs, "height") ELSE <<"0">>)
        dimensions == IF dims /= None THEN dims
                      ELSE IF width /= None /\ height /= None
                              /\ width[1] > 0 /\ height[1] > 0
                      THEN Some([width |-> width[1], height |-> height[1]])
                      ELSE None
    IN [src |-> t.src,
        size |-> t.size,
        format |-> format,
        dimensions |-> dimensions,
        optimizationScore |->
            calculateOptimizationScore(format, t.size, dimensions, t.isUsingNextImage,
                                       Some(t.srcsetAnalysis), t.cacheInfo),
        isLCP |-> FALSE,
        isUsingNextImage |-> t.isUsingNextImage,
        isInViewport |-> IF img.isInViewport_ /= None THEN img.isInViewport_[1] ELSE TRUE,
        isVisible |-> IF img.isVisible_ /= None THEN img.isVisible_[1] ELSE TRUE,
        recommendations |->
            generateRecommendations(format, t.size, dimensions, t.isUsingNextImage,
                                    likelyNext, Some(t.srcsetAnalysis), t.cacheInfo),
        srcset |-> t.srcset,
        srcsetAnalysis |-> t.srcsetAnalysis,
        cacheInfo |-> t.cacheInfo]

\* Lines 779-782.
LargestAfter(t, largest) ==
    IF t.size > largest.size THEN [src |-> t.src, size |-> t.size] ELSE largest

\* Lines 784-806 up to the await of sharp: the task waits for the decode, or
\* goes on to its record.
TaskAfterSize(t, img, likelyNext) ==
    LET format == getImageFormatFromUrl(
                      t.src, IF t.contentType /= <<>> THEN t.contentType
                             ELSE t.entryContentType)
    IN IF img.dimensions_ = None /\ format /= S_svg /\ t.buffer
       THEN [t EXCEPT !.pc = "awaitDecode", !.format = format]
       ELSE Settled("record", Some(TaskRecord(t, img, format, img.dimensions_, likelyNext)))

\* imgElements.map(async ...): the tasks start in order, each running to its
\* first await before the next starts.
RECURSIVE StartTasks(_, _, _, _, _, _)
StartTasks(elements, data, base, now, likelyNext, acc) ==
    IF elements = <<>> THEN acc
    ELSE LET img == Head(elements)
             t == TaskPrefix(img, data, base, now)
             sized == t.pc = "sized"
         IN StartTasks(Tail(elements), data, base, now, likelyNext,
                [tasks |-> Append(acc.tasks,
                                  IF sized THEN TaskAfterSize(t, img, likelyNext) ELSE t),
                 largestImage |-> IF sized THEN LargestAfter(t, acc.largestImage)
                                  ELSE acc.largestImage,
                 fetches |-> IF t.pc = "awaitFetch" THEN acc.fetches + 1
                             ELSE acc.fetches])

\* ---------------------------------- part_004 lines 865-932: after the join
\* The records taken from the last task to the first.
RECURSIVE ProcessedImagesBackwards(_)
ProcessedImagesBackwards(ts) ==
    IF ts = <<>> THEN <<>>
    ELSE ProcessedImagesBackwards(Tail(ts)) \o Head(ts).result

\* (await Promise.all(imagePromises)).filter(Boolean)
RECURSIVE ProcessedImages(_)
ProcessedImages(ts) ==
    IF ts = <<>> THEN <<>>
    ELSE Head(ts).result \o ProcessedImages(Tail(ts))

\* visibleViewportImages.reduce(...): the first image of the largest size.
RECURSIVE ReduceLargest(_, _)
ReduceLargest(images, largest) ==
    IF images = <<>> THEN largest
    ELSE ReduceLargest(Tail(images),
                       IF Head(images).size > largest.size THEN Head(images) ELSE largest)

\* The LCP message added to every flagged record, whatever component it uses.
MarkIfSrcUnguarded(img, src, likelyNext) ==
    IF img.src = src
    THEN [img EXCEPT !.isLCP = TRUE, !.recommendations = <<R_lcp>> \o img.recommendations]
    ELSE img

\* The LCP message pushed to the end of the list instead of unshifted.
MarkIfSrcAppending(img, src, likelyNext) ==
    IF img.src = src
    THEN [img EXCEPT !.isLCP = TRUE,
                     !.recommendations =
                         IF ~img.isUsingNextImage /\ likelyNext
                         THEN img.recommendations \o <<R_lcp>>
                         ELSE img.recommendations]
    ELSE img

\* The forEach bodies of lines 878-889 and 892-902.
MarkIfSrc(img, src, likelyNext) ==
    IF img.src = src
    THEN [img EXCEPT !.isLCP = TRUE,
                     !.recommendations =
                         IF ~img.isUsingNextImage /\ likelyNext
                         THEN <<R_lcp>> \o img.recommendations
                         ELSE img.recommendations]
    ELSE img

\* Lines 868-903.
MarkLCP(images, largest, likelyNext) ==
    LET visibleViewportImages ==
            SelectSeq(images, LAMBDA img : img.isVisible /\ img.isInViewport)
        lcpSrc == IF Len(visibleViewportImages) > 0
                  THEN ReduceLargest(visibleViewportImages, visibleViewportImages[1]).src
                  ELSE largest.src
    IN [i \in 1..Len(images) |-> MarkIfSrc(images[i], lcpSrc, likelyNext)]

\* ns.reduce((sum, n) => sum + n, 0)
RECURSIVE SumSeq(_)
SumSeq(ns) == IF ns = <<>> THEN 0 ELSE Head(ns) + SumSeq(Tail(ns))

\* A saving taken for every record, whatever its score.
SavingsTimes100Unguarded(img) == img.size * (80 - img.optimizationScore)

\* The records that carry cache evidence, hit or not.
CachedImagesWithEvidence(images) ==
    Len(SelectSeq(images, LAMBDA img : img.cacheInfo /= None))

\* Line 919: processedImages.filter((img) => img.cacheInfo?.cacheHit).length
CachedImages(images) ==
    Len(SelectSeq(images, LAMBDA img : img.cacheInfo /= None /\ img.cacheInfo[1].cacheHit))

\* img.size * savingsPercentage, times 100 to stay in the integers.
SavingsTimes100(img) ==
    IF img.optimizationScore < 80 THEN img.size * (80 - img.optimizationScore) ELSE 0

\* Lines 905-932. potentialSavings and the two percentages are fractions
\* [num, den]; a percentage that the code sets to 0 has den 1.
AnalysisResult(url, images, likelyNext, usePuppeteer) ==
    LET totalSize == SumSeq([i \in 1..Len(images) |-> images[i].size])
        savings100 == SumSeq([i \in 1..Len(images) |-> SavingsTimes100(images[i])])
        cachedImages == CachedImages(images)
    IN [url |-> url,
        images |-> images,
        totalSize |-> totalSize,
        potentialSavings |-> [num |-> savings100, den |-> 100],
        potentialSavingsPercentage |->
            IF totalSize > 0 THEN [num |-> savings100, den |-> totalSize]
            ELSE [num |-> 0, den |-> 1],
        isLikelyNextJsSite |-> likelyNext,
        renderedWithPuppeteer |-> usePuppeteer,
        totalTransformations |->
            SumSeq([i \in 1..Len(images) |->
                       images[i].srcsetAnalysis.transformationCount]),
        cachedImagesPercentage |->
            IF Len(images) > 0 THEN [num |-> cachedImages * 100, den |-> Len(images)]
            ELSE [num |-> 0, den |-> 1]]

\* -------------------------------------------------- completion of the run
Completion(result, error) == [result |-> result, error |-> error]
NoCompletion == Completion(None, None)

\* Lines 940-943: whatever was thrown is rethrown as a plain Error whose
\* message carries the cause.
WrappedError(cause) == [name |-> "Error", message |-> "Failed to analyze the provided URL", cause |-> cause]

Running == [status |-> "running", result |-> None, error |-> None]
Returned(result) == [status |-> "returned", result |-> Some(result), error |-> None]
Thrown(cause) == [status |-> "thrown", result |-> None, error |-> Some(WrappedError(cause))]
Outcome(c) == IF c.error = None THEN Returned(c.result[1]) ELSE Thrown(c.error[1])

\* A finally block that closes the browser only when the try block returned.
FinallyOnReturnOnly(c) ==
    /\ pending' = c
    /\ IF browser = "open" /\ c.error = None
       THEN /\ closeCalls' = closeCalls + 1
            /\ pc' = "closing"
            /\ outcome' = outcome
       ELSE /\ closeCalls' = closeCalls
            /\ pc' = "done"
            /\ outcome' = Outcome(c)

\* Lines 933-939: the try block completed with c (a result to return or an
\* error to rethrow); browser.close() is called when a browser was obtained,
\* and without one the completion goes straight on (to the caller, or
\* through the catch of line 940).
Finally(c) ==
    /\ pending' = c
    /\ IF browser = "open"
       THEN /\ closeCalls' = closeCalls + 1
            /\ pc' = "closing"
            /\ outcome' = outcome
       ELSE /\ closeCalls' = closeCalls
            /\ pc' = "done"
            /\ outcome' = Outcome(c)

Fail(cause) == Finally(Completion(None, Some(cause)))

\* await browser.close() settled: the completion of the try block goes on,
\* unless close threw, which replaces it.
CloseSettled ==
    /\ pc = "closing"
    /\ \E ok \in BOOLEAN :
          outcome' = IF ok THEN Outcome(pending) ELSE Thrown("browser.close failed")
    /\ browser' = "closed"
    /\ pc' = "done"
    /\ UNCHANGED <<env, baseUrl, closeCalls, imageNetworkData, responses,
                   isLikelyNextJsSite, imgElements, tasks, largestImage, pending, net,
                   fnIn, fnOut, other>>

\* ------------------------------------------------------------ analyzeUrl
\* new Map()
EmptyMap == [u \in {} |-> u]

NoNetwork == [launch |-> 0, goto |-> 0, pageFetch |-> 0, imageFetch |-> 0]
NoLargest == [src |-> <<>>, size |-> 0]

RunIdle ==
    /\ baseUrl = <<>>
    /\ browser = "null"
    /\ closeCalls = 0
    /\ imageNetworkData = EmptyMap
    /\ responses = 0
    /\ isLikelyNextJsSite = FALSE
    /\ imgElements = <<>>
    /\ tasks = <<>>
    /\ largestImage = NoLargest
    /\ pending = NoCompletion
    /\ outcome = Running
    /\ net = NoNetwork

Init ==
    /\ env \in [url : Urls, usePuppeteer : BOOLEAN, page : Pages, siteIsNext : BOOLEAN]
    /\ pc = "start"
    /\ RunIdle
    /\ fnIn = None
    /\ fnOut = None
    /\ other = None

\* A run that goes on to the collection without parsing its url.
ValidateLenient ==
    /\ pc = "start"
    /\ pc' = IF env.usePuppeteer THEN "launch" ELSE "pageFetch"
    /\ baseUrl' = env.url
    /\ UNCHANGED <<env, browser, closeCalls, imageNetworkData, responses,
                   isLikelyNextJsSite, imgElements, tasks, largestImage, pending,
                   outcome, net, fnIn, fnOut, other>>

\* Lines 578-583: new URL(url) throws inside the outer try alone, so the
\* error goes to the catch of line 940 with no finally to pass.
Validate ==
    /\ pc = "start"
    /\ LET parsedUrl == ParseURL(env.url)
       IN IF parsedUrl = None
          THEN /\ pc' = "done"
               /\ outcome' = Thrown("TypeError: Invalid URL")
               /\ UNCHANGED baseUrl
          ELSE /\ pc' = IF env.usePuppeteer THEN "launch" ELSE "pageFetch"
               /\ baseUrl' = parsedUrl[1].protocol \o <<"/", "/">> \o parsedUrl[1].host
               /\ UNCHANGED outcome
    /\ UNCHANGED <<env, browser, closeCalls, imageNetworkData, responses,
                   isLikelyNextJsSite, imgElements, tasks, largestImage, pending, net,
                   fnIn, fnOut, other>>

\* A launch whose failure falls back to the static page fetch.
LaunchWithFallback ==
    /\ pc = "launch"
    /\ net' = [net EXCEPT !.launch = @ + 1]
    /\ \E ok \in BOOLEAN :
          IF ok
          THEN /\ browser' = "open"
               /\ pc' = "newPage"
          ELSE /\ pc' = "pageFetch"
               /\ UNCHANGED browser
    /\ UNCHANGED <<closeCalls, pending, outcome>>
    /\ UNCHANGED <<env, baseUrl, imageNetworkData, responses, isLikelyNextJsSite,
                   imgElements, tasks, largestImage, fnIn, fnOut, other>>

\* Line 594, initPuppeteer (part_001 lines 8-23): the launch is started, and
\* gives a browser or throws.
Launch ==
    /\ pc = "launch"
    /\ net' = [net EXCEPT !.launch = @ + 1]
    /\ \E ok \in BOOLEAN :
          IF ok
          THEN /\ browser' = "open"
               /\ pc' = "newPage"
               /\ UNCHANGED <<closeCalls, pending, outcome>>
          ELSE /\ Fail("launch failed")
               /\ UNCHANGED browser
    /\ UNCHANGED <<env, baseUrl, imageNetworkData, responses, isLikelyNextJsSite,
                   imgElements, tasks, largestImage, fnIn, fnOut, other>>

\* A step of the rendered collection that awaits the browser and changes
\* nothing of the run when it succeeds.
BrowserStep(from, to, cause) ==
    /\ pc = from
    /\ \E ok \in BOOLEAN :
          IF ok
          THEN /\ pc' = to
               /\ UNCHANGED <<closeCalls, pending, outcome>>
          ELSE Fail(cause)
    /\ UNCHANGED <<env, baseUrl, browser, imageNetworkData, responses,
                   isLikelyNextJsSite, imgElements, tasks, largestImage, net,
                   fnIn, fnOut, other>>

\* Line 595.
NewPage == BrowserStep("newPage", "setup", "newPage failed")

\* Line 598, setupPage (part_001 lines 26-34).
SetupPage == BrowserStep("setup", "intercept", "setupPage failed")

\* Line 601, collectImageNetworkData (part_001 lines 37-70): a fresh Map, and
\* the response listener attached.
CollectImageNetworkData ==
    /\ pc = "intercept"
    /\ \E ok \in BOOLEAN :
          IF ok
          THEN /\ pc' = "goto"
               /\ imageNetworkData' = EmptyMap
               /\ UNCHANGED <<closeCalls, pending, outcome>>
          ELSE /\ Fail("setRequestInterception failed")
               /\ UNCHANGED imageNetworkData
    /\ UNCHANGED <<env, baseUrl, browser, responses, isLikelyNextJsSite,
                   imgElements, tasks, largestImage, net, fnIn, fnOut, other>>

\* Lines 605-608: the navigation is started.
Goto ==
    /\ pc = "goto"
    /\ pc' = "navigating"
    /\ net' = [net EXCEPT !.goto = @ + 1]
    /\ UNCHANGED <<env, baseUrl, browser, closeCalls, imageNetworkData, responses,
                   isLikelyNextJsSite, imgElements, tasks, largestImage, pending,
                   outcome, fnIn, fnOut, other>>

\* page.goto settled: network idle, or the 30 s timeout or another error.
Navigated == BrowserStep("navigating", "settle", "navigation failed")

\* Line 612: the 10 s timer fired.
SettleDelay ==
    /\ pc = "settle"
    /\ pc' = "evalNext"
    /\ UNCHANGED <<env, baseUrl, browser, closeCalls, imageNetworkData, responses,
                   isLikelyNextJsSite, imgElements, tasks, largestImage, pending,
                   outcome, net, fnIn, fnOut, other>>

\* Lines 615-621.
EvaluateNextJs ==
    /\ pc = "evalNext"
    /\ \E ok \in BOOLEAN :
          IF ok
          THEN /\ pc' = "evalImages"
               /\ isLikelyNextJsSite' = env.siteIsNext
               /\ UNCHANGED <<closeCalls, pending, outcome>>
          ELSE /\ Fail("page.evaluate failed")
               /\ UNCHANGED isLikelyNextJsSite
    /\ UNCHANGED <<env, baseUrl, browser, imageNetworkData, responses,
                   imgElements, tasks, largestImage, net, fnIn, fnOut, other>>

\* Lines 624-662.
EvaluateImages == BrowserStep("evalImages", "content", "page.evaluate failed")

\* The tasks of line 708 started over the elements, up to the await of line
\* 866.
StartOver(elements, likelyNext, now) ==
    LET started == StartTasks(elements, imageNetworkData, baseUrl, now, likelyNext,
                              [tasks |-> <<>>, largestImage |-> NoLargest, fetches |-> 0])
    IN /\ imgElements' = elements
       /\ tasks' = started.tasks
       /\ largestImage' = started.largestImage
       /\ net' = [net EXCEPT !.imageFetch = @ + started.fetches]
       /\ pc' = "tasks"

\* Lines 665-682 and 704-866: page.content() settled; the shims are built
\* and the per-image tasks started.
Content ==
    /\ pc = "content"
    /\ \E ok \in BOOLEAN :
          IF ok
          THEN /\ \E now \in Times :
                     StartOver([i \in 1..Len(env.page) |-> RenderedElement(env.page[i])],
                               isLikelyNextJsSite, now)
               /\ UNCHANGED <<closeCalls, pending, outcome>>
          ELSE /\ Fail("page.content failed")
               /\ UNCHANGED <<imgElements, tasks, largestImage, net>>
    /\ UNCHANGED <<env, baseUrl, browser, imageNetworkData, responses,
                   isLikelyNextJsSite, fnIn, fnOut, other>>

\* /\.(jpg|jpeg|png|gif|webp|avif|svg)(\?.*)?$/i
HasImageExtension(u) ==
    \E ext \in ExtensionAllowList : \E i \in 1..Len(u) :
        /\ u[i] = "."
        /\ ToLowerCase(SubSeq(u, i + 1, i + Len(ext))) = ext
        /\ (i + Len(ext) = Len(u) \/ (i + Len(ext) < Len(u) /\ u[i + Len(ext) + 1] = "?"))

\* part_001 lines 48-67: the entry the response listener stores, None when
\* the response is not taken for an image.
NetworkEntry(u, status, headers) ==
    LET contentType == HeaderGet(headers, "content-type")
        length == HeaderGet(headers, "content-length")
    IN IF StartsWith(contentType, S_imageSlash) \/ HasImageExtension(u)
       THEN Some([status |-> status, headers |-> headers, contentType |-> contentType,
                  size |-> ParseInt(IF length /= <<>> THEN length ELSE <<"0">>)])
       ELSE None

\* The urls of the page's images, as the browser requests them.
PageImageUrls == {env.page[i].dom.src : i \in 1..Len(env.page)} \ {<<>>, A_dataUri}

\* part_001 lines 48-67: the listener runs for a response of the page, from
\* the start of the navigation until the browser is closed.
Response ==
    /\ browser = "open"
    /\ pc \in {"navigating", "settle", "evalNext", "evalImages", "content", "tasks",
               "closing"}
    /\ responses < MaxResponses
    /\ responses' = responses + 1
    /\ \E u \in PageImageUrls : \E status \in {200} : \E headers \in InterceptedHeaders :
          LET entry == NetworkEntry(u, status, headers)
          IN imageNetworkData' = IF entry = None THEN imageNetworkData
                                 ELSE (u :> entry[1]) @@ imageNetworkData
    /\ UNCHANGED <<env, pc, baseUrl, browser, closeCalls, isLikelyNextJsSite,
                   imgElements, tasks, largestImage, pending, outcome, net, fnIn, fnOut, other>>

\* Lines 686-690: the static page fetch is started.
PageFetch ==
    /\ pc = "pageFetch"
    /\ pc' = "awaitPage"
    /\ net' = [net EXCEPT !.pageFetch = @ + 1]
    /\ UNCHANGED <<env, baseUrl, browser, closeCalls, imageNetworkData, responses,
                   isLikelyNextJsSite, imgElements, tasks, largestImage, pending,
                   outcome, fnIn, fnOut, other>>

\* Lines 686-694: fetchWithTimeout settled: it threw (network error or the
\* 10 s abort), or gave a response that is ok or not.
PageResponse ==
    /\ pc = "awaitPage"
    /\ \E r \in {"throws", "not ok", "ok"} :
          IF r = "ok"
          THEN /\ pc' = "pageText"
               /\ UNCHANGED <<closeCalls, pending, outcome>>
          ELSE Fail(IF r = "throws" THEN "fetch failed" ELSE "Failed to fetch URL")
    /\ UNCHANGED <<env, baseUrl, browser, imageNetworkData, responses,
                   isLikelyNextJsSite, imgElements, tasks, largestImage, net,
                   fnIn, fnOut, other>>

\* Lines 696-701 and 704-866: the markup is read and parsed, and the
\* per-image tasks started.
PageText ==
    /\ pc = "pageText"
    /\ \E ok \in BOOLEAN :
          IF ok
          THEN /\ isLikelyNextJsSite' = env.siteIsNext
               /\ \E now \in Times :
                     StartOver([i \in 1..Len(env.page) |-> ParsedElement(env.page[i])],
                               env.siteIsNext, now)
               /\ UNCHANGED <<closeCalls, pending, outcome>>
          ELSE /\ Fail("response.text failed")
               /\ UNCHANGED <<isLikelyNextJsSite, imgElements, tasks, largestImage, net>>
    /\ UNCHANGED <<env, baseUrl, browser, imageNetworkData, responses, fnIn, fnOut, other>>

\* The element and the locals of task i.
SetTask(i, t) == tasks' = [tasks EXCEPT ![i] = t]

\* Lines 755-767: the direct fetch of the image settled. fetch rejects at
\* once for a url it cannot parse; otherwise it rejects (network error, or
\* the abort of the 5 s timer) or gives a response.
FetchSettled(i) ==
    /\ pc = "tasks"
    /\ tasks[i].pc = "awaitFetch"
    /\ \/ SetTask(i, Settled("caught", None))
       \/ /\ ParseURL(tasks[i].src) /= None
          /\ SetTask(i, Settled("notOk", None))
       \/ /\ ParseURL(tasks[i].src) /= None
          /\ \E headers \in FetchedHeaders :
                SetTask(i, [tasks[i] EXCEPT !.pc = "awaitBody", !.response = Some(headers)])
    /\ UNCHANGED <<env, pc, baseUrl, browser, closeCalls, imageNetworkData, responses,
                   isLikelyNextJsSite, imgElements, largestImage, pending, outcome, net,
                   fnIn, fnOut, other>>

\* The evidence of the network entry alone, the fetched headers unread.
CacheInfoOfEntryOnly(cacheInfo, headers, now) == cacheInfo

\* Lines 774-776: if (!cacheInfo) cacheInfo = parseCacheStatus(imgResponse.headers)
CacheInfoAfterFetch(cacheInfo, headers, now) ==
    IF cacheInfo = None THEN Some(parseCacheStatus(headers, now)) ELSE cacheInfo

\* Lines 769-806: imgResponse.arrayBuffer() settled; with the bytes the task
\* runs on to the await of sharp, or to its record.
BodySettled(i) ==
    /\ pc = "tasks"
    /\ tasks[i].pc = "awaitBody"
    /\ \/ /\ SetTask(i, Settled("caught", None))
          /\ UNCHANGED largestImage
       \/ \E n \in BodySizes : \E now \in Times :
             LET headers == tasks[i].response[1]
                 t == [tasks[i] EXCEPT
                          !.size = n,
                          !.buffer = TRUE,
                          !.contentType = HeaderGet(headers, "content-type"),
                          !.cacheInfo = CacheInfoAfterFetch(@, headers, now)]
             IN /\ largestImage' = LargestAfter(t, largestImage)
                /\ SetTask(i, TaskAfterSize(t, imgElements[i], isLikelyNextJsSite))
    /\ UNCHANGED <<env, pc, baseUrl, browser, closeCalls, imageNetworkData, responses,
                   isLikelyNextJsSite, imgElements, pending, outcome, net, fnIn, fnOut, other>>

\* Line 794: format = metadata.format || format
FormatAfterDecode(format, metadata) ==
    IF metadata.format /= <<>> THEN metadata.format ELSE format

\* Lines 792-858: sharp(...).metadata() settled; a decode that throws is
\* logged and the task goes on with what it has.
DecodeSettled(i) ==
    /\ pc = "tasks"
    /\ tasks[i].pc = "awaitDecode"
    /\ \/ SetTask(i, [Settled("record",
                            Some(TaskRecord(tasks[i], imgElements[i], tasks[i].format,
                                            None, isLikelyNextJsSite)))
                        EXCEPT !.decodeError = TRUE])
       \/ \E metadata \in DecodedMetadata :
             LET format == FormatAfterDecode(tasks[i].format, metadata)
                 dims == IF metadata.width /= None /\ metadata.height /= None
                            /\ metadata.width[1] /= 0 /\ metadata.height[1] /= 0
                         THEN Some([width |-> metadata.width[1],
                                    height |-> metadata.height[1]])
                         ELSE None
             IN SetTask(i, Settled("record",
                           Some(TaskRecord(tasks[i], imgElements[i], format, dims,
                                           isLikelyNextJsSite))))
    /\ UNCHANGED <<env, pc, baseUrl, browser, closeCalls, imageNetworkData, responses,
                   isLikelyNextJsSite, imgElements, largestImage, pending, outcome, net,
                   fnIn, fnOut, other>>

\* A join that rejects when the fetch or the body read of a task failed, as
\* Promise.all does for a task without the catch of line 859.
JoinRejecting ==
    /\ pc = "tasks"
    /\ \A i \in 1..Len(tasks) : tasks[i].pc = "done"
    /\ Finally(IF \E i \in 1..Len(tasks) : tasks[i].exit \in {"caught", "notOk"}
               THEN Completion(None, Some("image failed"))
               ELSE Completion(
                        Some(AnalysisResult(env.url,
                                            MarkLCP(ProcessedImages(tasks), largestImage,
                                                    isLikelyNextJsSite),
                                            isLikelyNextJsSite, env.usePuppeteer)),
                        None))
    /\ UNCHANGED <<env, baseUrl, browser, imageNetworkData, responses,
                   isLikelyNextJsSite, imgElements, tasks, largestImage, net,
                   fnIn, fnOut, other>>

\* Lines 866-932: Promise.all resolved; the records are filtered, the LCP
\* marked, the totals taken and the result returned through finally.
Join ==
    /\ pc = "tasks"
    /\ \A i \in 1..Len(tasks) : tasks[i].pc = "done"
    /\ Finally(Completion(
           Some(AnalysisResult(env.url,
                               MarkLCP(ProcessedImages(tasks), largestImage,
                                       isLikelyNextJsSite),
                               isLikelyNextJsSite, env.usePuppeteer)),
           None))
    /\ UNCHANGED <<env, baseUrl, browser, imageNetworkData, responses,
                   isLikelyNextJsSite, imgElements, tasks, largestImage, net,
                   fnIn, fnOut, other>>

Next ==
    \/ Validate
    \/ Launch
    \/ NewPage
    \/ SetupPage
    \/ CollectImageNetworkData
    \/ Goto
    \/ Navigated
    \/ SettleDelay
    \/ EvaluateNextJs
    \/ EvaluateImages
    \/ Content
    \/ Response
    \/ PageFetch
    \/ PageResponse
    \/ PageText
    \/ \E i \in 1..Len(tasks) : FetchSettled(i)
    \/ \E i \in 1..Len(tasks) : BodySettled(i)
    \/ \E i \in 1..Len(tasks) : DecodeSettled(i)
    \/ Join
    \/ CloseSettled

Spec == Init /\ [][Next]_vars

\* ------------------------------------------------ what the run waits for
\* Most images of a page in the runs checked for termination.
MaxLiveImages == 1
InitLive ==
    /\ env \in [url : Urls, usePuppeteer : BOOLEAN,
                page : SeqsUpTo(Elements, MaxLiveImages), siteIsNext : BOOLEAN]
    /\ pc = "start"
    /\ RunIdle
    /\ fnIn = None
    /\ fnOut = None
    /\ other = None

\* Every await of the run settles when what it waits for is bounded: the
\* steps of the browser and the navigation (timeout of line 607), the settle
\* delay (612), the page fetch and each image fetch (the abort timer of
\* fetchWithTimeout, part_002 93-94), the decode and browser.close(). The
\* timer of fetchWithTimeout is cleared when fetch() resolves with the
\* response headers (part_002 101), so nothing bounds the read of the body
\* (part_004 769, 696): BodySettled and PageText wait for the server. A
\* response of the page may or may not arrive (Response). The steps listed
\* are the awaits of the run; the validation ahead of the first await is
\* synchronous code and no wait at all.
BoundedStep ==
    \/ Launch
    \/ NewPage
    \/ SetupPage
    \/ CollectImageNetworkData
    \/ Goto
    \/ Navigated
    \/ SettleDelay
    \/ EvaluateNextJs
    \/ EvaluateImages
    \/ Content
    \/ PageFetch
    \/ PageResponse
    \/ \E i \in 1..Len(tasks) : FetchSettled(i)
    \/ \E i \in 1..Len(tasks) : DecodeSettled(i)
    \/ Join
    \/ CloseSettled

\* A bounded step that can be taken is taken in the end.
Fairness == WF_vars(BoundedStep)

SpecLive == InitLive /\ [][Next]_vars /\ Fairness

\* ------------------------------------------- two calls in one process
\* analyzeUrl keeps everything it works on in its own scope (part_004
\* 578-589, 705; the Map of part_001 38): a call that waits at an await keeps
\* its locals while the other call takes its next step.
RunState ==
    [env |-> env, pc |-> pc, baseUrl |-> baseUrl, browser |-> browser,
     closeCalls |-> closeCalls, imageNetworkData |-> imageNetworkData,
     responses |-> responses, isLikelyNextJsSite |-> isLikelyNextJsSite,
     imgElements |-> imgElements, tasks |-> tasks, largestImage |-> largestImage,
     pending |-> pending, outcome |-> outcome, net |-> net]

\* The call that starts second, before its first step.
IdleRun(e) ==
    [env |-> e, pc |-> "start", baseUrl |-> <<>>, browser |-> "null",
     closeCalls |-> 0, imageNetworkData |-> EmptyMap, responses |-> 0,
     isLikelyNextJsSite |-> FALSE, imgElements |-> <<>>, tasks |-> <<>>,
     largestImage |-> NoLargest, pending |-> NoCompletion, outcome |-> Running,
     net |-> NoNetwork]

\* A switch in which largestImage is one variable of the module, seen by both
\* calls.
SwitchSharingLargest ==
    /\ other /= None
    /\ other' = Some(RunState)
    /\ env' = other[1].env
    /\ pc' = other[1].pc
    /\ baseUrl' = other[1].baseUrl
    /\ browser' = other[1].browser
    /\ closeCalls' = other[1].closeCalls
    /\ imageNetworkData' = other[1].imageNetworkData
    /\ responses' = other[1].responses
    /\ isLikelyNextJsSite' = other[1].isLikelyNextJsSite
    /\ imgElements' = other[1].imgElements
    /\ tasks' = other[1].tasks
    /\ pending' = other[1].pending
    /\ outcome' = other[1].outcome
    /\ net' = other[1].net
    /\ UNCHANGED <<largestImage, fnIn, fnOut>>

\* The event loop goes on with the other call: the running call stops at its
\* await with its locals, the waiting call resumes with its own.
Switch ==
    /\ other /= None
    /\ other' = Some(RunState)
    /\ env' = other[1].env
    /\ pc' = other[1].pc
    /\ baseUrl' = other[1].baseUrl
    /\ browser' = other[1].browser
    /\ closeCalls' = other[1].closeCalls
    /\ imageNetworkData' = other[1].imageNetworkData
    /\ responses' = other[1].responses
    /\ isLikelyNextJsSite' = other[1].isLikelyNextJsSite
    /\ imgElements' = other[1].imgElements
    /\ tasks' = other[1].tasks
    /\ largestImage' = other[1].largestImage
    /\ pending' = other[1].pending
    /\ outcome' = other[1].outcome
    /\ net' = other[1].net
    /\ UNCHANGED <<fnIn, fnOut>>

\* Two calls for pages of one image each; usePuppeteer is the same for both,
\* being a fact of the process (line 578).
TwoEnv(page, usePuppeteer) ==
    [url |-> U_page, usePuppeteer |-> usePuppeteer, page |-> page, siteIsNext |-> FALSE]

InitTwo ==
    /\ \E usePuppeteer \in BOOLEAN :
          /\ env = TwoEnv(<<E_rootRelative>>, usePuppeteer)
          /\ other = Some(IdleRun(TwoEnv(<<E_pathRelative>>, usePuppeteer)))
    /\ pc = "start"
    /\ RunIdle
    /\ fnIn = None
    /\ fnOut = None

NextTwo ==
    \/ Validate
    \/ Launch
    \/ NewPage
    \/ SetupPage
    \/ CollectImageNetworkData
    \/ Goto
    \/ Navigated
    \/ SettleDelay
    \/ EvaluateNextJs
    \/ EvaluateImages
    \/ Content
    \/ Response
    \/ PageFetch
    \/ PageResponse
    \/ PageText
    \/ \E i \in 1..Len(tasks) : FetchSettled(i)
    \/ \E i \in 1..Len(tasks) : BodySettled(i)
    \/ \E i \in 1..Len(tasks) : DecodeSettled(i)
    \/ Join
    \/ CloseSettled
    \/ Switch

SpecTwo == InitTwo /\ [][NextTwo]_vars

\* -------------------------------- direct calls of calculateOptimizationScore
ScoreFormats == {S_webp, S_avif, S_png, S_jpeg, S_jpg, S_gif, S_svg, S_unknown}
ScoreSizes == {0, 50000, 100001, 200000, 200001, 500000, 500001, 1000000, 1000001,
               1200000}
ScoreDimensions ==
    {None} \cup {Some([width |-> w, height |-> h]) :
                    w \in {800, 1000, 2000}, h \in {500, 501, 600, 1000, 1001}}
ScoreSrcSets ==
    {None} \cup {Some([EmptySrcSetAnalysis(n) EXCEPT !.hasMobileSize = m,
                                                     !.hasDesktopSize = m]) :
                    n \in 0..3, m \in BOOLEAN}
ScoreCaches ==
    {None} \cup {Some([cacheHit |-> h, cacheProvider |-> None, ttl |-> None,
                       cacheControl |-> None]) : h \in BOOLEAN}

InitScore ==
    /\ env = [url |-> U_page, usePuppeteer |-> FALSE, page |-> <<>>, siteIsNext |-> FALSE]
    /\ pc = "call"
    /\ RunIdle
    /\ fnIn \in {Some(a) : a \in [format : ScoreFormats, size : ScoreSizes,
                                  dimensions : ScoreDimensions,
                                  isUsingNextImage : BOOLEAN,
                                  srcsetAnalysis : ScoreSrcSets,
                                  cacheInfo : ScoreCaches]}
    /\ fnOut = None
    /\ other = None

CallScore ==
    /\ pc = "call"
    /\ fnOut = None
    /\ fnOut' = Some(calculateOptimizationScore(
                        fnIn[1].format, fnIn[1].size, fnIn[1].dimensions,
                        fnIn[1].isUsingNextImage, fnIn[1].srcsetAnalysis,
                        fnIn[1].cacheInfo))
    /\ UNCHANGED <<env, fnIn, other>>
    /\ UNCHANGED runVars

SpecScore == InitScore /\ [][CallScore]_vars

\* ------------------------------------- direct runs of the totals (905-932)
\* Most records in a list the totals are taken over.
MaxRecords == 2
TotalsSizes == {0, 100000, 200000}
TotalsScores == {60, 80, 90}
TotalsCounts == {0, 2}
\* The fields of a record the totals read.
TotalsRecords ==
    [size : TotalsSizes, optimizationScore : TotalsScores, cacheInfo : ScoreCaches,
     srcsetAnalysis : {EmptySrcSetAnalysis(n) : n \in TotalsCounts}]

InitTotals ==
    /\ env = [url |-> U_page, usePuppeteer |-> FALSE, page |-> <<>>, siteIsNext |-> FALSE]
    /\ pc = "totals"
    /\ RunIdle
    /\ fnIn \in {Some(images) : images \in SeqsUpTo(TotalsRecords, MaxRecords)}
    /\ fnOut = None
    /\ other = None

CallTotals ==
    /\ pc = "totals"
    /\ fnOut = None
    /\ fnOut' = Some(AnalysisResult(env.url, fnIn[1], FALSE, env.usePuppeteer))
    /\ UNCHANGED <<env, fnIn, other>>
    /\ UNCHANGED runVars

SpecTotals == InitTotals /\ [][CallTotals]_vars

\* ----------------------------- direct runs of parseCacheStatus (110-196)
\* Values a response may carry for each header parseCacheStatus reads; the
\* empty string stands for a header the response does not carry.
C_hitLower == <<"h", "i", "t">>
C_cloudfrontHit == <<"H", "i", "t", " ", "f", "r", "o", "m", " ", "c", "l", "o", "u", "d", "f", "r", "o", "n", "t">>
C_tcpHit == <<"T", "C", "P", "_", "H", "I", "T">>
C_tcpMiss == <<"T", "C", "P", "_", "M", "I", "S", "S">>
C_servedBy == <<"c", "a", "c", "h", "e", "-", "a", "b", "c", "-", "d", "e", "f", "1", "-", "g", "h", "i">>
C_cacheKey == <<"k">>
C_noStore == <<"n", "o", "-", "s", "t", "o", "r", "e">>
C_expiresAt3 == <<"3">>
C_expiresInvalid == <<"s", "o", "o", "n">>

VercelValues == {<<>>, S_HIT, C_hitLower, V_MISS}
CloudflareValues == {<<>>, S_HIT, V_MISS}
XCacheValues == {<<>>, C_cloudfrontHit, C_tcpHit, C_tcpMiss, S_HIT}
ServedByValues == {<<>>, C_servedBy}
CacheKeyValues == {<<>>, C_cacheKey}
CacheControlValues == {<<>>, V_publicMaxAge, C_noStore}
ExpiresValues == {<<>>, C_expiresAt3, C_expiresInvalid}

\* The Headers object of a choice of values: only the headers the response
\* carries.
HeadersOf(choice) == [n \in {m \in DOMAIN choice : choice[m] /= <<>>} |-> choice[n]]

CacheHeaders ==
    {HeadersOf(("x-vercel-cache" :> v) @@ ("cf-cache-status" :> cf) @@ ("x-cache" :> x)
               @@ ("x-served-by" :> sb) @@ ("x-adobe-cachekey" :> k)
               @@ ("cache-control" :> cc) @@ ("expires" :> e)) :
        v \in VercelValues, cf \in CloudflareValues, x \in XCacheValues,
        sb \in ServedByValues, k \in CacheKeyValues, cc \in CacheControlValues,
        e \in ExpiresValues}

InitCache ==
    /\ env = [url |-> U_page, usePuppeteer |-> FALSE, page |-> <<>>, siteIsNext |-> FALSE]
    /\ pc = "cache"
    /\ RunIdle
    /\ fnIn \in {Some([headers |-> h, now |-> t]) : h \in CacheHeaders, t \in Times}
    /\ fnOut = None
    /\ other = None

CallCache ==
    /\ pc = "cache"
    /\ fnOut = None
    /\ fnOut' = Some(parseCacheStatus(fnIn[1].headers, fnIn[1].now))
    /\ UNCHANGED <<env, fnIn, other>>
    /\ UNCHANGED runVars

SpecCache == InitCache /\ [][CallCache]_vars

\* ------- direct runs of generateRecommendations and of the LCP additions
\* (image.ts 219-309, part_004 878-889)
RecsFormats == {S_webp, S_png}
RecsSizes == {0, 500001, 1000001}
RecsDimensions ==
    {None} \cup {Some([width |-> w, height |-> 600]) : w \in {800, 1300, 2100}}
RecsSrcSets ==
    {None, Some(EmptySrcSetAnalysis(0)), Some(EmptySrcSetAnalysis(1))}
    \cup {Some([EmptySrcSetAnalysis(2) EXCEPT !.hasMobileSize = m, !.hasDesktopSize = d]) :
            m \in BOOLEAN, d \in BOOLEAN}
RecsCaches ==
    {None} \cup {Some([cacheHit |-> h, cacheProvider |-> None, ttl |-> t,
                       cacheControl |-> None]) :
                    h \in BOOLEAN, t \in {None, Some(60), Some(86400)}}

InitRecs ==
    /\ env = [url |-> U_page, usePuppeteer |-> FALSE, page |-> <<>>, siteIsNext |-> FALSE]
    /\ pc = "recs"
    /\ RunIdle
    /\ fnIn \in {Some(a) : a \in [format : RecsFormats, size : RecsSizes,
                                  dimensions : RecsDimensions,
                                  isUsingNextImage : BOOLEAN,
                                  isLikelyNextJsSite : BOOLEAN,
                                  srcsetAnalysis : RecsSrcSets,
                                  cacheInfo : RecsCaches,
                                  lcpSrc : {U_a, U_b}]}
    /\ fnOut = None
    /\ other = None

\* The record of the image at U_a gets its recommendations (line 845).
CallRecs ==
    /\ pc = "recs"
    /\ pc' = "recsMark"
    /\ fnOut' = Some([src |-> U_a, isLCP |-> FALSE,
                      isUsingNextImage |-> fnIn[1].isUsingNextImage,
                      recommendations |->
                          generateRecommendations(
                              fnIn[1].format, fnIn[1].size, fnIn[1].dimensions,
                              fnIn[1].isUsingNextImage, fnIn[1].isLikelyNextJsSite,
                              fnIn[1].srcsetAnalysis, fnIn[1].cacheInfo)])
    /\ UNCHANGED <<env, fnIn, other>>
    /\ UNCHANGED <<baseUrl, browser, closeCalls, imageNetworkData, responses,
                   isLikelyNextJsSite, imgElements, tasks, largestImage, pending,
                   outcome, net>>

\* The forEach of the LCP marking visits the record (lines 878-889).
MarkRecs ==
    /\ pc = "recsMark"
    /\ pc' = "recsDone"
    /\ fnOut' = Some(MarkIfSrc(fnOut[1], fnIn[1].lcpSrc, fnIn[1].isLikelyNextJsSite))
    /\ UNCHANGED <<env, fnIn, other>>
    /\ UNCHANGED <<baseUrl, browser, closeCalls, imageNetworkData, responses,
                   isLikelyNextJsSite, imgElements, tasks, largestImage, pending,
                   outcome, net>>

SpecRecs == InitRecs /\ [][CallRecs \/ MarkRecs]_vars

\* ----------- direct runs of the format resolution (image.ts 2-14, 784-806)
F_png == <<"h", "t", "t", "p", ":", "/", "/", "h", "/", "a", ".", "p", "n", "g">>
F_jpgQuery == <<"h", "t", "t", "p", ":", "/", "/", "h", "/", "a", ".", "j", "p", "g", "?", "w", "=", "1">>
F_svg == <<"h", "t", "t", "p", ":", "/", "/", "h", "/", "a", ".", "s", "v", "g">>
F_noExtension == <<"h", "t", "t", "p", ":", "/", "/", "h", "/", "a">>
T_svgXml == <<"i", "m", "a", "g", "e", "/", "s", "v", "g", "+", "x", "m", "l">>
T_icon == <<"i", "m", "a", "g", "e", "/", "x", "-", "i", "c", "o", "n">>
T_webpParam == <<"i", "m", "a", "g", "e", "/", "w", "e", "b", "p", ";", "q", "=", "1">>
T_html == <<"t", "e", "x", "t", "/", "h", "t", "m", "l">>
D_heif == <<"h", "e", "i", "f">>
D_tiff == <<"t", "i", "f", "f">>
FormatUrls == {F_png, F_jpgQuery, F_svg, F_noExtension}
FormatContentTypes == {<<>>, V_imagePng, T_svgXml, T_icon, T_webpParam, T_html}
\* What sharp reports: None when it throws, else the metadata's format, empty
\* when the metadata has none.
FormatDecodes == {None} \cup {Some(Metadata(f, None, None)) : f \in {<<>>, S_png, D_heif, D_tiff}}

InitFormat ==
    /\ env = [url |-> U_page, usePuppeteer |-> FALSE, page |-> <<>>, siteIsNext |-> FALSE]
    /\ pc = "format"
    /\ RunIdle
    /\ fnIn \in {Some(a) : a \in [src : FormatUrls, contentType : FormatContentTypes,
                                  hasDimensions : BOOLEAN, decode : FormatDecodes]}
    /\ fnOut = None
    /\ other = None

\* Line 785.
CallFormat ==
    /\ pc = "format"
    /\ pc' = "formatDecode"
    /\ fnOut' = Some(getImageFormatFromUrl(fnIn[1].src, fnIn[1].contentType))
    /\ UNCHANGED <<env, fnIn, other>>
    /\ UNCHANGED <<baseUrl, browser, closeCalls, imageNetworkData, responses,
                   isLikelyNextJsSite, imgElements, tasks, largestImage, pending,
                   outcome, net>>

\* Lines 791-806: the decode is skipped for a record with dimensions and for
\* the format "svg"; a decode that throws leaves the format as it is.
DecodeFormat ==
    /\ pc = "formatDecode"
    /\ pc' = "formatDone"
    /\ fnOut' = IF ~fnIn[1].hasDimensions /\ fnOut[1] /= S_svg /\ fnIn[1].decode /= None
                THEN Some(FormatAfterDecode(fnOut[1], fnIn[1].decode[1]))
                ELSE fnOut
    /\ UNCHANGED <<env, fnIn, other>>
    /\ UNCHANGED <<baseUrl, browser, closeCalls, imageNetworkData, responses,
                   isLikelyNextJsSite, imgElements, tasks, largestImage, pending,
                   outcome, net>>

SpecFormat == InitFormat /\ [][CallFormat \/ DecodeFormat]_vars

\* ------- direct runs of parseSrcSet and analyzeSrcSet (image.ts 48-132)
\* Most pairs in a srcset.
MaxPairs == 3
P_320w == <<"x", " ", "3", "2", "0", "w">>
P_1280w == <<"y", " ", "1", "2", "8", "0", "w">>
P_2x == <<"z", " ", "2", "x">>
P_1x == <<"v", " ", "1", "x">>
P_bare == <<"u">>
P_noUnit == <<"t", " ", "1", "0", "0">>
P_emptyWidth == <<"s", " ", "w">>
P_0w == <<"r", " ", "0", "w">>
SrcSetPairs == {P_320w, P_1280w, P_2x, P_1x, P_bare, P_noUnit, P_emptyWidth, P_0w, <<>>}

\* pairs.join(", ")
RECURSIVE JoinPairs(_)
JoinPairs(pairs) ==
    IF pairs = <<>> THEN <<>>
    ELSE IF Len(pairs) = 1 THEN pairs[1]
    ELSE pairs[1] \o <<",", " ">> \o JoinPairs(Tail(pairs))

InitSrcSet ==
    /\ env = [url |-> U_page, usePuppeteer |-> FALSE, page |-> <<>>, siteIsNext |-> FALSE]
    /\ pc = "srcset"
    /\ RunIdle
    /\ fnIn \in {Some(JoinPairs(pairs)) : pairs \in SeqsUpTo(SrcSetPairs, MaxPairs)}
    /\ fnOut = None
    /\ other = None

\* part_004 line 732: parseSrcSet(srcset).
CallParseSrcSet ==
    /\ pc = "srcset"
    /\ pc' = "srcsetParsed"
    /\ fnOut' = Some(parseSrcSet(fnIn[1]))
    /\ UNCHANGED <<env, fnIn, other>>
    /\ UNCHANGED <<baseUrl, browser, closeCalls, imageNetworkData, responses,
                   isLikelyNextJsSite, imgElements, tasks, largestImage, pending,
                   outcome, net>>

\* part_004 line 733: analyzeSrcSet(srcsetItems).
CallAnalyzeSrcSet ==
    /\ pc = "srcsetParsed"
    /\ pc' = "srcsetDone"
    /\ fnOut' = Some(analyzeSrcSet(fnOut[1]))
    /\ UNCHANGED <<env, fnIn, other>>
    /\ UNCHANGED <<baseUrl, browser, closeCalls, imageNetworkData, responses,
                   isLikelyNextJsSite, imgElements, tasks, largestImage, pending,
                   outcome, net>>

SpecSrcSet == InitSrcSet /\ [][CallParseSrcSet \/ CallAnalyzeSrcSet]_vars

\* ================================================================= properties
\* The value calculateOptimizationScore had before the clamp, for the call
\* the harness made.
ScoreBeforeClamp ==
    calculateOptimizationScoreUnclamped(
        fnIn[1].format, fnIn[1].size, fnIn[1].dimensions, fnIn[1].isUsingNextImage,
        fnIn[1].srcsetAnalysis, fnIn[1].cacheInfo)

\* C1: whatever the format, byte size, dimensions, component flag, variant
\* summary and cache evidence, calculateOptimizationScore returns an integer
\* between 0 and 100.
ScoreInRange == fnOut /= None => fnOut[1] \in 0..100

\* The call whose penalties add up to more than 100 returned 0.
ScoreInRangeWitness == fnOut = Some(0) /\ ScoreBeforeClamp < 0

\* The penalty tables of the scoring engine, written out as a sum.
CachePenalty(cacheInfo) == IF cacheInfo /= None /\ ~cacheInfo[1].cacheHit THEN 15 ELSE 0
FormatPenalty(format) ==
    CASE format \in {S_webp, S_avif} -> 0
      [] format = S_png -> 15
      [] format \in {S_jpeg, S_jpg} -> 10
      [] format = S_gif -> 30
      [] OTHER -> 5
SizePenalty(size) ==
    CASE size > 1000000 -> 20
      [] size > 500000 /\ size <= 1000000 -> 10
      [] size > 200000 /\ size <= 500000 -> 5
      [] OTHER -> 0
AreaPenalty(dimensions) ==
    IF dimensions = None THEN 0
    ELSE LET area == dimensions[1].width * dimensions[1].height
         IN CASE area > 2000000 -> 15
              [] area > 1000000 /\ area <= 2000000 -> 10
              [] area > 500000 /\ area <= 1000000 -> 5
              [] OTHER -> 0
VariantPenalty(srcsetAnalysis) ==
    IF srcsetAnalysis = None THEN 15
    ELSE CASE srcsetAnalysis[1].transformationCount = 0 -> 15
           [] srcsetAnalysis[1].transformationCount = 1 -> 5
           [] OTHER -> 0
ComponentPenalty(isUsingNextImage) == IF isUsingNextImage THEN 0 ELSE 15
ReferenceScore(a) ==
    LET P == CachePenalty(a.cacheInfo) + FormatPenalty(a.format) + SizePenalty(a.size)
             + AreaPenalty(a.dimensions) + VariantPenalty(a.srcsetAnalysis)
             + ComponentPenalty(a.isUsingNextImage)
    IN IF 100 - P < 0 THEN 0 ELSE IF 100 - P > 100 THEN 100 ELSE 100 - P

\* The two worked examples of the scoring engine.
GifExample ==
    [format |-> S_gif, size |-> 1200000, dimensions |-> None, isUsingNextImage |-> FALSE,
     srcsetAnalysis |-> None, cacheInfo |-> None]
WebpExample ==
    [format |-> S_webp, size |-> 50000,
     dimensions |-> Some([width |-> 800, height |-> 600]), isUsingNextImage |-> TRUE,
     srcsetAnalysis |-> Some([EmptySrcSetAnalysis(2) EXCEPT !.hasMobileSize = TRUE,
                                                            !.hasDesktopSize = TRUE]),
     cacheInfo |-> Some([cacheHit |-> TRUE, cacheProvider |-> None, ttl |-> None,
                         cacheControl |-> None])]

\* C2: calculateOptimizationScore returns 100 minus the sum of the cache,
\* format, size, pixel-area, variant and component penalties, clamped to
\* 0..100; the gif example scores 20 and the webp example 100.
ScoreMatchesReference ==
    fnOut /= None =>
        /\ fnOut[1] = ReferenceScore(fnIn[1])
        /\ fnIn[1] = GifExample => fnOut[1] = 20
        /\ fnIn[1] = WebpExample => fnOut[1] = 100

\* The gif example was scored, with 20.
ScoreMatchesReferenceWitness == fnIn = Some(GifExample) /\ fnOut = Some(20)

\* The records of the result analyzeUrl returned.
ResultImages == IF outcome.status = "returned" THEN outcome.result[1].images ELSE <<>>
Flagged(images) == {i \in 1..Len(images) : images[i].isLCP}
VisibleInViewport(images) ==
    {i \in 1..Len(images) : images[i].isVisible /\ images[i].isInViewport}
\* The first record of the largest size among the records of S.
FirstLargest(images, S) ==
    CHOOSE i \in S : \A j \in S :
        \/ images[j].size < images[i].size
        \/ images[j].size = images[i].size /\ i <= j

\* C3: a returned result with records has exactly one record flagged isLCP,
\* and a result without records has none.
ExactlyOneLCP ==
    outcome.status = "returned" =>
        Cardinality(Flagged(ResultImages)) = IF Len(ResultImages) > 0 THEN 1 ELSE 0

\* C4: no two records of a returned result have the same src.
UniqueSrc ==
    \A i, j \in 1..Len(ResultImages) :
        ResultImages[i].src = ResultImages[j].src => i = j

\* The tasks that went past the normalisation of lines 717-722.
Normalized == {i \in 1..Len(tasks) : tasks[i].src /= <<>>}

\* C5: every record of a result has an absolute src, and the normalisation
\* of any non-empty, non-data raw source gives an absolute URL.
AbsoluteSrc ==
    /\ \A i \in 1..Len(ResultImages) : IsAbsoluteUrl(ResultImages[i].src)
    /\ \A i \in Normalized : IsAbsoluteUrl(tasks[i].src)

\* C6: when some record is visible and in the viewport, the one record
\* flagged isLCP is the first of the largest size among those records, and
\* no record outside them is flagged.
LCPIsFirstLargestInViewport ==
    VisibleInViewport(ResultImages) /= {} =>
        Flagged(ResultImages) =
            {FirstLargest(ResultImages, VisibleInViewport(ResultImages))}

\* C7: when no record is visible and in the viewport, the record flagged
\* isLCP is the first of the largest size among all records, whatever the
\* order the tasks completed in. Stated for results whose records have
\* distinct sources and sizes above zero.
FallbackLCPIsFirstLargest ==
    (/\ Len(ResultImages) > 0
     /\ VisibleInViewport(ResultImages) = {}
     /\ \A i \in 1..Len(ResultImages) : ResultImages[i].size > 0
     /\ \A i, j \in 1..Len(ResultImages) :
           ResultImages[i].src = ResultImages[j].src => i = j)
    => Flagged(ResultImages) = {FirstLargest(ResultImages, 1..Len(ResultImages))}

\* The run was given a string that new URL rejects.
InvalidUrls == {u \in Urls : ParseURL(u) = None}
InvalidUrl == env.url \in InvalidUrls

BrowserClosedOnce ==
    /\ closeCalls <= 1
    /\ browser = "null" => closeCalls = 0
    /\ browser = "open" => (closeCalls = 1 <=> pc = "closing")
    /\ browser = "closed" => closeCalls = 1
    /\ outcome.status /= "running" => browser \in {"null", "closed"}
    /\ pc = "done" => outcome.status /= "running"

\* A run whose navigation failed has thrown, with its browser closed once.
BrowserClosedOnceWitness ==
    /\ outcome.status = "thrown"
    /\ pending.error = Some("navigation failed")
    /\ browser = "closed"
    /\ closeCalls = 1

\* The tasks that ended in a failure of the direct fetch (it threw, was
\* aborted, or gave a status that is not ok) or of the body read.
FetchFailed == {i \in 1..Len(tasks) : tasks[i].exit \in {"caught", "notOk"}}
\* The tasks whose decode threw.
DecodeFailed == {i \in 1..Len(tasks) : tasks[i].decodeError}
\* The try block of the run completed.
Completed == pc \in {"closing", "done"} /\ tasks /= <<>>
\* The tasks without those of S, in order.
RECURSIVE Without(_, _, _)
Without(ts, S, i) ==
    IF i > Len(ts) THEN <<>>
    ELSE (IF i \in S THEN <<>> ELSE <<ts[i]>>) \o Without(ts, S, i + 1)

\* C10 as stated: a failure of an image's fetch, body read or decode never
\* fails the run, and the failing image has no record.
FailingImageHasNoRecord ==
    /\ \A i \in FetchFailed \cup DecodeFailed : tasks[i].result = None
    /\ Completed => pending.error = None

\* C10: a failure of an image's fetch or body read never fails the run and
\* leaves the image without a record; an image whose decode threw keeps its
\* record; the result is the one of the page without the images whose fetch
\* or body read failed, and the largest image is never one of those.
PerImageFailureIsLocal ==
    /\ \A i \in FetchFailed : tasks[i].result = None
    /\ \A i \in DecodeFailed : tasks[i].result /= None
    /\ Completed =>
          /\ pending.error = None
          /\ pending.result[1].images =
                MarkLCP(ProcessedImages(Without(tasks, FetchFailed, 1)), largestImage,
                        isLikelyNextJsSite)
          /\ \/ largestImage = NoLargest
             \/ \E i \in 1..Len(tasks) :
                   /\ tasks[i].result /= None
                   /\ tasks[i].result[1].src = largestImage.src
                   /\ tasks[i].result[1].size = largestImage.size
    /\ outcome.status = "thrown" /\ tasks /= <<>> =>
          outcome.error[1].cause = "browser.close failed"

\* A run returned the record of one image although the fetch of another
\* image failed.
PerImageFailureWitness ==
    /\ outcome.status = "returned"
    /\ FetchFailed /= {}
    /\ Len(ResultImages) > 0

\* The sources the collection leaves out: empty, a data URI, or an embedded
\* base64 payload.
ExcludedSource(src) ==
    \/ Len(src) = 0
    \/ (Len(src) >= 5 /\ SubSeq(src, 1, 5) = <<"d", "a", "t", "a", ":">>)
    \/ \E k \in 1..Len(src) :
          k + 7 <= Len(src)
          /\ SubSeq(src, k, k + 7) = <<";", "b", "a", "s", "e", "6", "4", ",">>
\* The source the page gives for its i-th <img>, in the collection used.
RawSource(i) ==
    IF env.usePuppeteer /\ Len(env.page[i].dom.src) > 0 THEN env.page[i].dom.src
    ELSE IF "src" \in DOMAIN env.page[i].attrs THEN env.page[i].attrs["src"]
    ELSE <<>>
\* The tasks of the <img> elements with an excluded source.
Excluded == {i \in 1..Len(tasks) : ExcludedSource(RawSource(i))}

\* C11: an <img> whose source is empty, starts with "data:" or contains
\* ";base64," gives no record and no error: no fetch is started for it, the
\* largest image is never it, and the result is the one of the remaining
\* images.
ExcludedSourceIsSkipped ==
    /\ \A i \in Excluded : tasks[i].pc = "done" /\ tasks[i].result = None
    /\ net.imageFetch <= Len(tasks) - Cardinality(Excluded)
    /\ \A i \in Excluded : largestImage.src /= NormalizeSrc(RawSource(i), baseUrl)
    /\ Completed =>
          /\ pending.error = None
          /\ pending.result[1] =
                AnalysisResult(env.url,
                               MarkLCP(ProcessedImages(Without(tasks, Excluded, 1)),
                                       largestImage, isLikelyNextJsSite),
                               isLikelyNextJsSite, env.usePuppeteer)

\* A run returned the record of an image of a page that also holds an image
\* with an embedded base64 source.
ExcludedSourceWitness ==
    /\ outcome.status = "returned"
    /\ Len(ResultImages) = 1
    /\ \E i \in Excluded : RawSource(i) = A_base64

\* The sum of F over the first k records, F being a size, a saving in
\* hundredths of a byte, or a variant count.
RECURSIVE SizeUpTo(_, _)
SizeUpTo(images, k) == IF k = 0 THEN 0 ELSE SizeUpTo(images, k - 1) + images[k].size
RECURSIVE SavingUpTo(_, _)
SavingUpTo(images, k) ==
    IF k = 0 THEN 0
    ELSE SavingUpTo(images, k - 1)
         + (IF images[k].optimizationScore >= 80 THEN 0
            ELSE images[k].size * (80 - images[k].optimizationScore))
RECURSIVE VariantsUpTo(_, _)
VariantsUpTo(images, k) ==
    IF k = 0 THEN 0
    ELSE VariantsUpTo(images, k - 1) + images[k].srcsetAnalysis.transformationCount
HitsOf(images) ==
    Cardinality({k \in 1..Len(images) :
                    images[k].cacheInfo /= <<>> /\ images[k].cacheInfo[1].cacheHit = TRUE})

\* The list of the aggregator's example: scores 60 and 90, sizes 100000 and
\* 200000.
IsSavingsExample(images) ==
    /\ Len(images) = 2
    /\ images[1].optimizationScore = 60 /\ images[1].size = 100000
    /\ images[2].optimizationScore = 90 /\ images[2].size = 200000

\* A fraction in lowest terms.
RECURSIVE Gcd(_, _)
Gcd(a, b) == IF b = 0 THEN a ELSE Gcd(b, a % b)
Lowest(num, den) == [num |-> num \div Gcd(num, den), den |-> den \div Gcd(num, den)]
SameFraction(f, num, den) == f.den > 0 /\ Lowest(f.num, f.den) = Lowest(num, den)

\* C12: totalSize is the sum of the sizes, potentialSavings the sum of
\* size * (80 - score) / 100 over the records with a score below 80, and
\* potentialSavingsPercentage is potentialSavings / totalSize * 100, or 0
\* when totalSize is 0; the example gives 20000.
TotalsMatchRecords ==
    fnOut /= None /\ pc = "totals" =>
        LET images == fnIn[1]
            r == fnOut[1]
            T == SizeUpTo(images, Len(images))
            S == SavingUpTo(images, Len(images))
        IN /\ r.totalSize = T
           /\ SameFraction(r.potentialSavings, S, 100)
           /\ T = 0 => SameFraction(r.potentialSavingsPercentage, 0, 1)
           /\ T > 0 => SameFraction(r.potentialSavingsPercentage, S, T)
           /\ IsSavingsExample(images) => SameFraction(r.potentialSavings, 20000, 1)

\* The totals of the example were taken.
TotalsWitness ==
    /\ pc = "totals" /\ fnOut /= None
    /\ IsSavingsExample(fnIn[1])
    /\ fnOut[1].potentialSavings = [num |-> 2000000, den |-> 100]

\* C13: cachedImagesPercentage is the number of records with cacheHit true
\* over the number of records, times 100; it is 0 for no records and lies
\* in 0..100; totalTransformations is the sum of the transformationCounts.
CachePercentageMatchesRecords ==
    fnOut /= None /\ pc = "totals" =>
        LET images == fnIn[1]
            c == fnOut[1].cachedImagesPercentage
        IN /\ c.den > 0
           /\ c.num >= 0 /\ c.num <= 100 * c.den
           /\ Len(images) = 0 => c.num = 0
           /\ Len(images) > 0 => SameFraction(c, HitsOf(images) * 100, Len(images))
           /\ fnOut[1].totalTransformations = VariantsUpTo(images, Len(images))

\* The totals of two records, one of them a cache hit and one a miss, gave
\* one half.
CachePercentageWitness ==
    /\ pc = "totals" /\ fnOut /= None
    /\ Len(fnIn[1]) = 2
    /\ HitsOf(fnIn[1]) = 1
    /\ \E k \in 1..2 : fnIn[1][k].cacheInfo /= <<>> /\ ~fnIn[1][k].cacheInfo[1].cacheHit
    /\ fnOut[1].cachedImagesPercentage = [num |-> 100, den |-> 2]
    /\ fnOut[1].totalTransformations = 4

\* ------------------------------------------------------------------- C14
\* The header a response carries under a name, empty when it carries none.
CacheInput == fnIn[1].headers
CacheOutput == fnOut[1]
Carried(name) == IF name \in DOMAIN CacheInput THEN CacheInput[name] ELSE <<>>
\* Whether each rule of the list matches the response, taken on its own.
VercelMatches == Carried("x-vercel-cache") /= <<>>
CloudflareMatches == Carried("cf-cache-status") /= <<>>
CloudfrontMatches == Includes(Carried("x-cache"), S_cloudfront)
FastlyMatches ==
    /\ Carried("x-cache") /= <<>>
    /\ Carried("x-served-by") /= <<>>
    /\ fastlyPattern(Trim(SplitBy(Carried("x-served-by"), {","})[1]))
AkamaiMatches == Includes(Carried("x-cache"), S_TCP)
AdobeMatches == Carried("x-adobe-cachekey") /= <<>>
GenericMatches ==
    Includes(Carried("cache-control"), S_public) \/ Includes(Carried("cache-control"), S_private)
\* The provider of the first rule that matches, in the order of the list.
FirstMatchingProvider ==
    IF VercelMatches THEN Some("Vercel")
    ELSE IF CloudflareMatches THEN Some("Cloudflare")
    ELSE IF CloudfrontMatches THEN Some("Cloudfront")
    ELSE IF FastlyMatches THEN Some("Fastly")
    ELSE IF AkamaiMatches THEN Some("Akamai")
    ELSE IF AdobeMatches THEN Some("Adobe AEM")
    ELSE IF GenericMatches THEN Some("Generic")
    ELSE None

\* C14: the cacheProvider parseCacheStatus reports is the provider of the
\* first rule that matches in the order Vercel, Cloudflare, Cloudfront,
\* Fastly, Akamai, Adobe AEM, Generic; a later rule never replaces it.
ProviderIsFirstMatch ==
    (pc = "cache" /\ fnOut /= None) => CacheOutput.cacheProvider = FirstMatchingProvider

\* ------------------------------------------------------------------- C15
\* The Vercel marker is the only cache marker and there is no Expires.
OnlyVercelMarker ==
    /\ VercelMatches
    /\ \A n \in {"cf-cache-status", "x-cache", "x-served-by", "x-adobe-cachekey", "expires"} :
          Carried(n) = <<>>

\* C15: with the Vercel marker as the only cache marker and no Expires,
\* cacheHit is true exactly when the marker equals "HIT" in any letter case,
\* and the provider is "Vercel".
VercelHitIgnoresCase ==
    (pc = "cache" /\ fnOut /= None /\ OnlyVercelMarker) =>
        /\ CacheOutput.cacheHit = (ToLowerCase(Carried("x-vercel-cache")) = C_hitLower)
        /\ CacheOutput.cacheProvider = Some("Vercel")

\* ------------------------------------------------------------------- C16
\* No provider rule matches, so no earlier rule produced a hit signal.
NoProviderMarker ==
    ~(VercelMatches \/ CloudflareMatches \/ CloudfrontMatches \/ FastlyMatches \/ AkamaiMatches)
ExpiresValue == ParseDate(Carried("expires"))
ExpiresInFuture == ExpiresValue /= None /\ ExpiresValue[1] > fnIn[1].now

\* C16: when no earlier rule produced a hit and the response carries an
\* Expires header, cacheHit is true exactly when Expires is a valid date
\* strictly later than the current time, with or without cache-control.
FutureExpiresIsHit ==
    (pc = "cache" /\ fnOut /= None /\ NoProviderMarker /\ Carried("expires") /= <<>>) =>
        CacheOutput.cacheHit = ExpiresInFuture

\* ------------------------------------------------------------------- C17
RecsInput == fnIn[1]
RecsOutput == fnOut[1].recommendations
Listed(m) == \E i \in 1..Len(RecsOutput) : RecsOutput[i] = m
\* Some recommendation other than the praise applies to the image.
CacheAdvice ==
    /\ RecsInput.cacheInfo /= None
    /\ \/ ~RecsInput.cacheInfo[1].cacheHit
       \/ RecsInput.cacheInfo[1].ttl /= None /\ RecsInput.cacheInfo[1].ttl[1] < 86400
FormatAdvice == RecsInput.format \notin {S_webp, S_avif}
SizeAdvice == RecsInput.size > 500000
DimensionAdvice ==
    /\ RecsInput.dimensions /= None
    /\ RecsInput.dimensions[1].width > 1200 \/ RecsInput.dimensions[1].height > 1200
SrcSetAdvice ==
    /\ RecsInput.srcsetAnalysis /= None
    /\ \/ RecsInput.srcsetAnalysis[1].transformationCount = 1
       \/ /\ RecsInput.srcsetAnalysis[1].transformationCount >= 2
          /\ ~(RecsInput.srcsetAnalysis[1].hasMobileSize
               /\ RecsInput.srcsetAnalysis[1].hasDesktopSize)
OtherAdviceApplies ==
    \/ CacheAdvice
    \/ ~RecsInput.isUsingNextImage
    \/ FormatAdvice
    \/ SizeAdvice
    \/ DimensionAdvice
    \/ SrcSetAdvice

\* C17: the recommendations of a record are never empty; "Image appears to
\* be well optimized" is listed exactly when no other recommendation applies,
\* and is then the only element, before and after the LCP marking.
PraiseStandsAlone ==
    (pc \in {"recsMark", "recsDone"}) =>
        /\ RecsOutput /= <<>>
        /\ Listed(R_wellOptimized) <=> ~OtherAdviceApplies
        /\ Listed(R_wellOptimized) => RecsOutput = <<R_wellOptimized>>

\* A well optimized Next.js Image record flagged as LCP on a Next.js site.
PraiseStandsAloneWitness ==
    /\ pc = "recsDone"
    /\ fnOut[1].isLCP
    /\ RecsInput.isLikelyNextJsSite
    /\ RecsOutput = <<R_wellOptimized>>

\* ------------------------------------------------------------------- C18
RecordFormats == {S_jpeg, S_png, S_gif, S_webp, S_avif, S_svg, S_unknown}

\* C18: the format a record is given is one of jpeg, png, gif, webp, avif,
\* svg and unknown, for every content-type, URL and decoder-reported format.
FormatInFiniteSet ==
    (pc = "formatDone") => fnOut[1] \in RecordFormats

\* ------------------------------------------------------------------- C19
RenderedStarted == net.launch > 0
StaticStarted == net.pageFetch > 0

\* C19: one analysis starts at most one collection strategy, so a failed
\* rendered collection is never followed by the static page fetch, and the
\* result's renderedWithPuppeteer is true exactly when the rendered
\* collection was the one used.
OneCollectionStrategy ==
    /\ net.launch <= 1
    /\ net.pageFetch <= 1
    /\ ~(RenderedStarted /\ StaticStarted)
    /\ outcome.status = "returned" =>
          /\ outcome.result[1].renderedWithPuppeteer = RenderedStarted
          /\ ~outcome.result[1].renderedWithPuppeteer = StaticStarted

\* The rendered collection failed at its launch and the run has ended.
OneCollectionStrategyWitness ==
    /\ pc = "done"
    /\ RenderedStarted
    /\ outcome.status = "thrown"
    /\ pending.error = Some("launch failed")
    /\ ~StaticStarted

\* ------------------------------------------------------------------- C20
\* The absolute sources of the images of a call's own page.
OwnSources(r) == {r.env.page[i].dom.src : i \in 1..Len(r.env.page)}
\* The tasks of a call whose size is known: waiting for the decode, or
\* settled with a record.
Measured(r) ==
    {[src |-> r.tasks[i].src, size |-> r.tasks[i].size] :
        i \in {j \in 1..Len(r.tasks) : r.tasks[j].pc = "awaitDecode"}}
    \cup {[src |-> r.tasks[i].result[1].src, size |-> r.tasks[i].result[1].size] :
            i \in {j \in 1..Len(r.tasks) : r.tasks[j].result /= None}}
\* Everything a call holds comes from its own page and its own tasks, and its
\* result is the one its own records, largest image and flags give.
OwnStateOnly(r) ==
    /\ DOMAIN r.imageNetworkData \subseteq OwnSources(r)
    /\ Len(r.imgElements) \in {0, Len(r.env.page)}
    /\ Len(r.tasks) \in {0, Len(r.env.page)}
    /\ \A m \in Measured(r) : m.src \in OwnSources(r) /\ m.size <= r.largestImage.size
    /\ r.largestImage = NoLargest \/ r.largestImage \in Measured(r)
    /\ r.outcome.status = "returned" =>
          /\ r.outcome.result[1] =
                AnalysisResult(r.env.url,
                               MarkLCP(ProcessedImages(r.tasks), r.largestImage,
                                       r.isLikelyNextJsSite),
                               r.isLikelyNextJsSite, r.env.usePuppeteer)
          /\ \A i \in 1..Len(r.outcome.result[1].images) :
                r.outcome.result[1].images[i].src \in OwnSources(r)

\* C20: two calls of analyzeUrl that run interleaved share no mutable
\* state: each holds only what comes from its own page, and each result is
\* the one the call computes from its own records, as when it runs alone.
ConcurrentRunsAreIsolated ==
    other /= None => OwnStateOnly(RunState) /\ OwnStateOnly(other[1])

\* Both calls are in the middle of their image tasks, each with the image of
\* its own page as its largest.
ConcurrentRunsWitness ==
    /\ other /= None
    /\ pc = "tasks"
    /\ other[1].pc = "tasks"
    /\ largestImage.src = U_a
    /\ other[1].largestImage.src = U_b

\* ------------------------------------------------------------------- C21
\* The place of a message in the order cache, framework, format, size,
\* dimensions, responsive coverage.
AdviceRank(m) ==
    IF m \in {R_cacheMiss, R_lowTtl} THEN 1
    ELSE IF m \in {R_replaceImg, R_considerNext} THEN 2
    ELSE IF m \in {R_convertWebp, R_nextShouldConvert} THEN 3
    ELSE IF m \in {R_compress, R_furtherCompress} THEN 4
    ELSE IF m \in {R_resize, R_veryLarge, R_responsiveMultiple, R_responsiveNext} THEN 5
    ELSE IF m \in {R_moreVariants, R_addMobile, R_addDesktop} THEN 6
    ELSE 0
CacheMissApplies == RecsInput.cacheInfo /= None /\ ~RecsInput.cacheInfo[1].cacheHit
LowTtlApplies ==
    /\ RecsInput.cacheInfo /= None
    /\ RecsInput.cacheInfo[1].cacheHit
    /\ RecsInput.cacheInfo[1].ttl /= None
    /\ RecsInput.cacheInfo[1].ttl[1] < 86400

\* C21: the messages of generateRecommendations come in the order cache,
\* framework, format, size, dimensions, responsive coverage, with the
\* cache-miss message first when the cache evidence is not a hit and the
\* low-TTL advisory otherwise; responsive advice is given exactly for one
\* variant, or for two or more that lack mobile or desktop coverage.
AdviceInOrder ==
    (pc = "recsMark") =>
        /\ \A i, j \in 1..Len(RecsOutput) :
              i < j => AdviceRank(RecsOutput[i]) <= AdviceRank(RecsOutput[j])
        /\ Listed(R_cacheMiss) <=> CacheMissApplies
        /\ CacheMissApplies => RecsOutput[1] = R_cacheMiss
        /\ Listed(R_lowTtl) <=> LowTtlApplies
        /\ (\E m \in {R_moreVariants, R_addMobile, R_addDesktop} : Listed(m)) <=> SrcSetAdvice
        /\ Listed(R_moreVariants) <=>
              (RecsInput.srcsetAnalysis /= None
               /\ RecsInput.srcsetAnalysis[1].transformationCount = 1)

\* A cache miss with advice of every kind, two of them for the srcset.
AdviceInOrderWitness ==
    /\ pc = "recsMark"
    /\ Len(RecsOutput) = 7
    /\ RecsOutput[1] = R_cacheMiss
    /\ RecsOutput[7] = R_addDesktop

\* ------------------------------------------------------------------- C22
\* The records as the tasks resolved them, before the LCP marking.
RecordsBeforeMarking == ProcessedImages(tasks)
\* What the marking may do to a flagged record.
WithLCPAdvice(img, likelyNext) ==
    [img EXCEPT !.isLCP = TRUE,
                !.recommendations = IF ~img.isUsingNextImage /\ likelyNext
                                    THEN <<R_lcp>> \o @ ELSE @]

\* C22: the LCP message is put in front of the recommendations of a flagged
\* record exactly when the record does not use the Next.js Image component
\* and the page is likely a Next.js site; nothing else of a flagged record
\* changes, and every other record is left as it was.
LCPAdviceOnFlaggedOnly ==
    outcome.status = "returned" =>
        /\ Len(ResultImages) = Len(RecordsBeforeMarking)
        /\ \A i \in 1..Len(ResultImages) :
              ResultImages[i] =
                  IF ResultImages[i].isLCP
                  THEN WithLCPAdvice(RecordsBeforeMarking[i],
                                     outcome.result[1].isLikelyNextJsSite)
                  ELSE RecordsBeforeMarking[i]

\* A flagged record whose list starts with the LCP message, ahead of the
\* cache-miss message, next to a record that is not flagged.
LCPAdviceWitness ==
    /\ outcome.status = "returned"
    /\ Len(ResultImages) = 2
    /\ ResultImages[1].isLCP
    /\ ~ResultImages[2].isLCP
    /\ Len(ResultImages[1].recommendations) >= 2
    /\ ResultImages[1].recommendations[1] = R_lcp
    /\ ResultImages[1].recommendations[2] = R_cacheMiss

\* ------------------------------------------------------------------- C23
\* What each sampled pair says: whether it carries a descriptor, and its
\* width or density if it has one (None inside Some is NaN).
PairFact(descriptor, width, density) ==
    [descriptor |-> descriptor, width |-> width, density |-> density]
PairFacts(p) ==
    IF p = P_320w THEN PairFact(TRUE, Some(Some(320)), None)
    ELSE IF p = P_1280w THEN PairFact(TRUE, Some(Some(1280)), None)
    ELSE IF p = P_0w THEN PairFact(TRUE, Some(Some(0)), None)
    ELSE IF p = P_emptyWidth THEN PairFact(TRUE, Some(None), None)
    ELSE IF p = P_2x THEN PairFact(TRUE, None, Some(Some(2)))
    ELSE IF p = P_1x THEN PairFact(TRUE, None, Some(Some(1)))
    ELSE IF p = P_noUnit THEN PairFact(TRUE, None, None)
    ELSE PairFact(FALSE, None, None)
\* The comma-separated pairs of the srcset that carry a descriptor.
PairsOf(srcset) ==
    LET parts == SplitBy(srcset, {","})
        facts == [i \in 1..Len(parts) |-> PairFacts(Trim(parts[i]))]
    IN SelectSeq(facts, LAMBDA f : f.descriptor)
WidthsOf(pairs) == {pairs[i].width[1] : i \in {j \in 1..Len(pairs) : pairs[j].width /= None}}
DensitiesOf(pairs) ==
    {pairs[i].density[1] : i \in {j \in 1..Len(pairs) : pairs[j].density /= None}}
Least(S) == CHOOSE m \in S : \A n \in S : m[1] <= n[1]
Greatest(S) == CHOOSE m \in S : \A n \in S : m[1] >= n[1]
\* max / min >= 2 for widths that are not negative.
TwiceAtLeast(max, min) == IF min = 0 THEN max > 0 ELSE max >= 2 * min
ExpectedSummary(srcset) ==
    LET pairs == PairsOf(srcset)
        widths == WidthsOf(pairs)
        densities == DensitiesOf(pairs)
    IN IF widths /= {}
       THEN IF None \in widths
            THEN [transformationCount |-> Len(pairs), hasAppropriateRange |-> FALSE,
                  hasMobileSize |-> FALSE, hasDesktopSize |-> FALSE,
                  sizeRange |-> Some([min |-> None, max |-> None])]
            ELSE [transformationCount |-> Len(pairs),
                  hasAppropriateRange |-> TwiceAtLeast(Greatest(widths)[1], Least(widths)[1]),
                  hasMobileSize |-> Least(widths)[1] <= 640,
                  hasDesktopSize |-> Greatest(widths)[1] >= 1024,
                  sizeRange |-> Some([min |-> Least(widths), max |-> Greatest(widths)])]
       ELSE IF densities /= {}
       THEN [transformationCount |-> Len(pairs),
             hasAppropriateRange |-> Greatest(densities)[1] >= 2,
             hasMobileSize |-> TRUE, hasDesktopSize |-> TRUE, sizeRange |-> None]
       ELSE [transformationCount |-> Len(pairs), hasAppropriateRange |-> FALSE,
             hasMobileSize |-> FALSE, hasDesktopSize |-> FALSE, sizeRange |-> None]

\* C23: parseSrcSet followed by analyzeSrcSet counts the comma-separated
\* pairs that carry a descriptor, gives all flags false and no size range for
\* no entries, the width rules (max/min >= 2, min <= 640, max >= 1024, range
\* min..max) when an entry has a width, and otherwise the density rules
\* (max >= 2, both sizes true, no range) when an entry has a density.
SrcSetSummaryMatches ==
    (pc = "srcsetDone") => fnOut[1] = ExpectedSummary(fnIn[1])

\* Widths 320 and 1280 next to a pair without a descriptor.
SrcSetSummaryWitness ==
    /\ pc = "srcsetDone"
    /\ fnIn[1] = P_320w \o <<",", " ">> \o P_bare \o <<",", " ">> \o P_1280w
    /\ fnOut[1].transformationCount = 2
    /\ fnOut[1].hasAppropriateRange
    /\ fnOut[1].sizeRange = Some([min |-> Some(320), max |-> Some(1280)])

\* ------------------------------------------------------------------- C24
FormatInput == fnIn[1]
DeclaredImageType == StartsWith(FormatInput.contentType, S_imageSlash)
UrlExtension ==
    LET parts == SplitBy(FormatInput.src, {"."}) IN ToLowerCase(parts[Len(parts)])
ExtensionListed == UrlExtension \in {S_jpg, S_jpeg, S_png, S_gif, S_webp, S_avif, S_svg}
\* The format the content-type or, failing that, the URL extension gives.
FormatBeforeDecode ==
    IF DeclaredImageType THEN SplitBy(FormatInput.contentType, {"/"})[2]
    ELSE IF UrlExtension = S_jpg THEN S_jpeg
    ELSE UrlExtension

\* C24: the format comes from the content-type when it is an image type,
\* else from the URL extension through the allow-list, and only when neither
\* gives one from the decoder; a format resolved from the content-type or
\* the extension is never replaced by the decoder's format.
DecoderNeverReplacesFormat ==
    (pc = "formatDone" /\ (DeclaredImageType \/ ExtensionListed)) =>
        fnOut[1] = FormatBeforeDecode

\* ------------------------------------------------------------------- C25
\* The records of the result whose URL has an entry in the network map.
WithEntry == {i \in 1..Len(ResultImages) : ResultImages[i].src \in DOMAIN imageNetworkData}
DeclaredSize(entry) == IF entry.size = None THEN 0 ELSE entry.size[1]

\* C25: a record whose URL has an entry in the run's network map carries
\* cache evidence and server evidence taken from the entry's headers, and
\* its size is the size the entry declares.
EntryEvidenceInRecord ==
    outcome.status = "returned" =>
        \A i \in WithEntry :
            /\ ResultImages[i].cacheInfo /= None
            /\ "serverInfo" \in DOMAIN ResultImages[i]
            /\ ResultImages[i].size = DeclaredSize(imageNetworkData[ResultImages[i].src])

\* ------------------------------------------------------------------- C26
\* The tasks that wait for their direct fetch.
Fetching(ts) == {i \in 1..Len(ts) : ts[i].pc = "awaitFetch"}
\* The absolute source of a task that was not skipped at its start.
SourceOf(t) == IF t.result /= None THEN t.result[1].src ELSE t.src
\* The lookup of a source in the network map leaves the size unknown.
SizeUnknown(src, data) == src \notin DOMAIN data \/ DeclaredSize(data[src]) = 0
\* The start of the tasks over the map data: a task fetches exactly when it
\* was not skipped and its size is unknown, and each fetch is counted once.
FetchesAtStart(ts, data, fetches) ==
    /\ fetches = Cardinality(Fetching(ts))
    /\ \A i \in 1..Len(ts) :
          ts[i].pc = "awaitFetch" <=> (ts[i].exit /= "skip" /\ SizeUnknown(SourceOf(ts[i]), data))
StartOfTasks == pc /= "tasks" /\ pc' = "tasks"
AtMostOnceEach ==
    /\ net.launch <= 1
    /\ net.goto <= 1
    /\ net.pageFetch <= 1
    /\ net.imageFetch <= Len(imgElements)
    /\ net.launch > 0 => net.pageFetch = 0
NoNewAttempt ==
    /\ StartOfTasks => FetchesAtStart(tasks', imageNetworkData, net'.imageFetch)
    /\ pc = "tasks" => net' = net /\ Fetching(tasks') \subseteq Fetching(tasks)
    /\ pc \in {"closing", "done"} => net' = net

\* C26: the direct fetch of an image is issued only when the lookup in the
\* network map left its size unknown, and nothing is retried: at most one
\* direct fetch per <img> element, one navigation or page fetch, and one
\* browser launch, also after a failure.
NothingIsRetried == []AtMostOnceEach /\ [][NoNewAttempt]_vars

\* Rendered collection of two images: the first has an entry with a size and
\* is not fetched, the second has none and is.
NothingIsRetriedWitness ==
    /\ pc = "tasks"
    /\ net.launch = 1
    /\ net.imageFetch = 1
    /\ Len(tasks) = 2
    /\ tasks[1].result /= None
    /\ tasks[1].result[1].src \in DOMAIN imageNetworkData
    /\ tasks[2].pc = "awaitFetch"

\* ------------------------------------------------------------------- C27
\* C27: the network map is written only during the rendered collection and
\* is read-only from the moment the per-image tasks start: no response
\* callback adds or overwrites an entry once the tasks have started.
MapReadOnlyOnceTasksStart ==
    /\ [](~env.usePuppeteer => imageNetworkData = EmptyMap)
    /\ [][pc = "tasks" => imageNetworkData' = imageNetworkData]_vars

\* ------------------------------------------------------------------- C28
\* C28: every per-image fetch, the read of the body included, settles by
\* its timeout, so once the collection has finished the join completes and
\* analyzeUrl returns or throws, whatever the image servers do.
RunEndsAfterCollection == (pc = "tasks") ~> (pc = "done" /\ outcome.status /= "running")

\* The tasks that resolved to a record.
WithRecord == {i \in 1..Len(tasks) : tasks[i].exit = "record"}
\* The place of the i-th <img> among the images that gave a record.
PlaceOf(i) == Cardinality({j \in WithRecord : j <= i})

\* C29: the records of the result stand in the order in which the <img>
\* elements were enumerated, the images without a record left out, whatever
\* the order in which the tasks of the images completed.
RecordsInEnumerationOrder ==
    outcome.status = "returned" =>
       /\ Len(ResultImages) = Cardinality(WithRecord)
       /\ \A i \in WithRecord :
             ResultImages[PlaceOf(i)].src = NormalizeSrc(RawSource(i), baseUrl)

\* A run returned the records of two different images of one size, and the
\* largest image noted is the second: its size was known before the size of
\* the first (line 779 compares with >), so its task ran ahead.
RecordsInEnumerationOrderWitness ==
    /\ outcome.status = "returned"
    /\ Len(ResultImages) = 2
    /\ ResultImages[1].src /= ResultImages[2].src
    /\ ResultImages[1].size = ResultImages[2].size
    /\ ResultImages[1].size > 0
    /\ largestImage.src = ResultImages[2].src

\* ------------------------------------------------------------------- C30
\* The cache evidence a task holds: in its record once it has one.
EvidenceOf(t) == IF t.result /= None THEN t.result[1].cacheInfo ELSE t.cacheInfo
\* A record without a hit: 15 points are taken off and the cache-miss advice
\* is among its recommendations.
MissIsPenalized(r) ==
    LET P == 15 + FormatPenalty(r.format) + SizePenalty(r.size) + AreaPenalty(r.dimensions)
             + VariantPenalty(Some(r.srcsetAnalysis)) + ComponentPenalty(r.isUsingNextImage)
    IN /\ r.optimizationScore = Max2(0, 100 - P)
       /\ \E j \in 1..Len(r.recommendations) : r.recommendations[j] = R_cacheMiss
EvidencePresent ==
    /\ \A k \in 1..Len(ResultImages) :
          /\ ResultImages[k].cacheInfo /= None
          /\ ~ResultImages[k].cacheInfo[1].cacheHit => MissIsPenalized(ResultImages[k])
    /\ \A i \in 1..Len(tasks) :
          /\ tasks[i].pc = "awaitDecode" => tasks[i].cacheInfo /= None
          /\ tasks[i].result /= None => tasks[i].result[1].cacheInfo /= None
\* Where the evidence comes from: at the start of the tasks from the entry
\* of the source, a source without entry being fetched; afterwards from the
\* headers of the direct fetch when there is none yet, and never replaced.
EvidenceSource ==
    /\ StartOfTasks =>
          \A i \in 1..Len(tasks') :
             tasks'[i].exit /= "skip" =>
                IF SourceOf(tasks'[i]) \in DOMAIN imageNetworkData
                THEN \E now \in Times :
                        EvidenceOf(tasks'[i]) =
                           Some(parseCacheStatus(
                                   imageNetworkData[SourceOf(tasks'[i])].headers, now))
                ELSE tasks'[i].pc = "awaitFetch" /\ tasks'[i].cacheInfo = None
    /\ pc = "tasks" =>
          \A i \in 1..Len(tasks) :
             (tasks'[i] /= tasks[i] /\ tasks'[i].exit \notin {"notOk", "caught"}) =>
                IF tasks[i].cacheInfo /= None
                THEN EvidenceOf(tasks'[i]) = tasks[i].cacheInfo
                ELSE IF tasks[i].pc = "awaitBody"
                THEN \E now \in Times :
                        EvidenceOf(tasks'[i]) =
                           Some(parseCacheStatus(tasks[i].response[1], now))
                ELSE EvidenceOf(tasks'[i]) = None

\* C30: every record of a result has cache evidence: the one of the network
\* entry of its source when there is an entry, else the one of the headers
\* of the direct fetch, which is made whenever there is no entry; so every
\* record without a hit has the 15 points of the cache miss taken off its
\* score and carries the cache-miss recommendation.
EveryRecordHasCacheEvidence == []EvidencePresent /\ [][EvidenceSource]_vars

\* Rendered collection of two images returned two records: the first was
\* sized by its entry and not fetched, the second has no entry, was fetched,
\* shows no hit and carries the cache-miss advice in front.
EveryRecordHasCacheEvidenceWitness ==
    /\ outcome.status = "returned"
    /\ Len(ResultImages) = 2
    /\ net.imageFetch = 1
    /\ ResultImages[1].src \in DOMAIN imageNetworkData
    /\ ResultImages[2].src \notin DOMAIN imageNetworkData
    /\ ~ResultImages[2].cacheInfo[1].cacheHit
    /\ ~ResultImages[2].isLCP
    /\ Head(ResultImages[2].recommendations) = R_cacheMiss

====
